---- MODULE Spec2Model ----
(***************************************************************************)
(* Verification model of the rosa_core numerical core of the               *)
(* slicer-rosa-helper repository:                                          *)
(*   - case_loader.build_effective_matrices  (transform-graph resolver)    *)
(*   - assignments.suggest_model_id_for_trajectory (model matcher)         *)
(*   - contacts.generate_contacts            (contact placement)           *)
(*   - qc.compute_qc_metrics                 (QC metrics)                  *)
(*   - contact_fit.fit_electrode_axis_and_tip (axis/depth fitter)          *)
(* Each component has its own specification (SpecFrames, SpecMatch, ...):  *)
(* Init draws the call's arguments from bounded sets and the actions run   *)
(* the code.  Floating-point values are modelled by exact integers; the    *)
(* inputs are chosen so that every value the code computes on them is an   *)
(* integer (or an exact rational kept as numerator and denominator).       *)
(***************************************************************************)
EXTENDS Integers, Sequences, FiniteSets, TLC

VARIABLES
    \* ---- build_effective_matrices (case_loader.py)
    displays,      \* argument: function 0..n-1 -> [matrix, imagery_3dref]
    root_index,    \* argument
    fpc,           \* position in the call: "call", "loop", "done", "error"
    loop_i,        \* the index the final `for i in range(n)` loop is at
    refs,          \* normalized references (None replaced by root_index)
    cache,         \* memo table: None or the composed matrix
    active,        \* the "currently resolving" set
    stack,         \* call stack of to_root: <<[i, phase]>>, top first
    ferror,        \* None, or the raised ValueError [kind, index] or [kind, index, ref]
    fresult,       \* None, or the returned list
    ncompose,      \* number of matmul_4x4 calls made so far
    \* ---- suggest_model_id_for_trajectory (assignments.py)
    m_trajectory,  \* argument: [start, end]
    m_models,      \* argument models_by_id: id -> [length, contact_count]
    m_model_ids,   \* argument model_ids: None or a list of ids
    m_tolerance,   \* argument tolerance_mm
    mpc,           \* "call" before the call, "done" after it
    m_result,      \* the returned id
    \* ---- generate_contacts (contacts.py)
    g_trajectories, \* argument: list of [name, start, end]
    g_models,       \* argument models_by_id: id -> [id, offsets]
    g_assignments,  \* argument: the rows of assignments["assignments"]
    gpc,            \* "call", "loop", "done", "error"
    g_k,            \* number of rows the loop has processed
    g_out,          \* the list `out`
    g_missing,      \* the list `missing`
    g_error,        \* None, or the raised ValueError [kind, missing]
    g_result,       \* None, or the returned list
    \* ---- compute_qc_metrics (qc.py)
    q_planned,      \* argument planned_trajectories_by_name: name -> [start, end]
    q_final,        \* argument final_trajectories_by_name
    q_planned_contacts, \* argument: list of [trajectory, index, position_lps]
    q_final_contacts,   \* argument
    qpc,            \* "call", "done", "error"
    q_rows,         \* None, or the returned list of rows
    \* ---- fit_electrode_axis_and_tip (contact_fit.py)
    e_points,       \* argument candidate_points_lps
    e_entry,        \* argument planned_entry_lps
    e_target,       \* argument planned_target_lps
    e_offsets,      \* argument contact_offsets_mm
    e_tip_at,       \* argument tip_at
    e_roi_radius,   \* argument roi_radius_mm
    e_max_angle,    \* argument max_angle_deg
    e_max_depth_shift, \* argument max_depth_shift_mm
    epc,            \* "call", "ransac" (inside the loop of ransac_fit_line), "done", "error"
    e_roi_pts,      \* local roi_pts
    e_slab_centroids, \* local slab_centroids
    e_iter,         \* iterations of the RANSAC loop taken
    e_best,         \* None, or [mask, count, score] of ransac_fit_line
    e_fit,          \* None, or the locals of the fit after the RANSAC stage
    e_result,       \* None, or the returned dictionary
    \* ---- ransac_fit_line called on its own (contact_fit.py)
    r_points,       \* argument points
    r_min_inliers,  \* argument min_inliers
    r_thr,          \* argument inlier_threshold_mm
    rpc,            \* "call", "loop", "done", "error"
    r_iter,         \* iterations of the loop taken
    r_best,         \* None, or [mask, count, score]
    r_result,       \* None, or the returned (center, axis, inlier_mask, rms)
    \* ---- RosaHelperWidget._fit_trajectories (RosaHelper.py), called twice
    s_names,        \* argument names of the running call
    s_call,         \* 1 or 2: which call is running
    s_k,            \* names taken by the loop of the running call
    spc,            \* "loop", "fit" (inside fit_electrode_axis_and_tip), "done", "error"
    autoFitResults, \* self.autoFitResults: the fits stored so far, by name
    s_returned,     \* history: what each fit_electrode_axis_and_tip returned
    rng_pos,        \* samples drawn from the generator of the running fit
    numpy_choice,   \* the samples default_rng(seed).choice has given, by draw
    numpy_eigh,     \* the axes np.linalg.eigh has given, by fitted points
    s_seed,         \* the seed the caller wants the fits of the session drawn with
    \* ---- the auto-fit handlers of RosaHelperWidget (RosaHelper.py)
    w_ct,           \* what the fit finds in the CT around each trajectory position
    w_loaded,       \* the names of self.loadedTrajectories, in table order
    w_line,         \* the position of the line markup of each loaded trajectory
    w_candidates,   \* len(self.autoFitCandidatesLPS)
    w_results,      \* self.autoFitResults of the widget: name -> stored fit
    w_preview,      \* the names that have an AutoFit_ preview line in the scene
    w_last,         \* history: the latest attempt per name since Load or Detect
    w_op,           \* history: the handler that ran last
    \* ---- load_electrode_library, validate_electrode_library (electrode_models.py)
    l_data,         \* the parsed JSON document
    lpc,            \* "call", "loop", "valid", "done", "error"
    l_k,            \* models the loop of validate_electrode_library has passed
    l_seen_ids,     \* the set seen_ids
    l_error,        \* None, or the raised ValueError [kind]
    l_loaded,       \* None, or the document load_electrode_library returned
    \* ---- load_assignments, save_assignment_template (contacts.py)
    af_text,        \* content of the assignment file, as JSON tokens
    afpc,           \* "call", "loaded", "saved", "reloaded", "error"
    af_result,      \* None, or the document load_assignments returned
    af_error,       \* None, or the raised ValueError
    af_saved,       \* content of the file save_assignment_template wrote
    af_reloaded,    \* None, or the document loaded from the saved file
    \* ---- parse_ros_text (ros_parser.py)
    p_blocks,       \* the imagery blocks of the file, in file order
    p_tokens,       \* tokens = extract_tokens(text)
    ppc,            \* "call", "displays", "refs", "done"
    p_displays,     \* the list displays
    p_imagery_refs, \* the list imagery_refs
    \* ---- contact generation in the widget (RosaHelper.py)
    u_table,                \* assignment table: trajectory name -> model id ("" for none)
    u_prefix_text,          \* text of contactsNodeNameEdit
    u_line,                 \* position of the line markup of each trajectory
    u_nodes,                \* fiducial nodes of the scene: node name -> control points
    lastGeneratedContacts,  \* self.lastGeneratedContacts
    lastAssignments,        \* the rows of self.lastAssignments
    u_op                    \* the last handler and its outcome

frameVars == <<displays, root_index, fpc, loop_i, refs, cache, active, stack,
               ferror, fresult, ncompose>>

matchVars == <<m_trajectory, m_models, m_model_ids, m_tolerance, mpc, m_result>>

contactVars == <<g_trajectories, g_models, g_assignments, gpc, g_k, g_out,
                 g_missing, g_error, g_result>>

qcVars == <<q_planned, q_final, q_planned_contacts, q_final_contacts, qpc, q_rows>>

fitInputs ==
    <<e_points, e_entry, e_target, e_offsets, e_tip_at, e_roi_radius, e_max_angle,
      e_max_depth_shift>>

fitVars ==
    <<fitInputs, epc, e_roi_pts, e_slab_centroids, e_iter, e_best, e_fit, e_result>>

ransacVars == <<r_points, r_min_inliers, r_thr, rpc, r_iter, r_best, r_result>>

sessionVars ==
    <<s_names, s_call, s_k, spc, autoFitResults, s_returned, rng_pos, numpy_choice,
      numpy_eigh, s_seed>>

workflowVars ==
    <<w_ct, w_loaded, w_line, w_candidates, w_results, w_preview, w_last, w_op>>

libraryVars == <<l_data, lpc, l_k, l_seen_ids, l_error, l_loaded>>

assignFileVars == <<af_text, afpc, af_result, af_error, af_saved, af_reloaded>>

parserVars == <<p_blocks, p_tokens, ppc, p_displays, p_imagery_refs>>

uiVars == <<u_table, u_prefix_text, u_line, u_nodes, lastGeneratedContacts, lastAssignments, u_op>>

vars == <<frameVars, matchVars, contactVars, qcVars, fitVars, ransacVars, sessionVars, workflowVars, libraryVars, assignFileVars, parserVars, uiVars>>

notFrameVars == <<matchVars, contactVars, qcVars, fitVars, ransacVars, sessionVars, workflowVars, libraryVars, assignFileVars, parserVars, uiVars>>

notMatchVars == <<frameVars, contactVars, qcVars, fitVars, ransacVars, sessionVars, workflowVars, libraryVars, assignFileVars, parserVars, uiVars>>

notContactVars == <<frameVars, matchVars, qcVars, fitVars, ransacVars, sessionVars, workflowVars, libraryVars, assignFileVars, parserVars, uiVars>>

notQcVars == <<frameVars, matchVars, contactVars, fitVars, ransacVars, sessionVars, workflowVars, libraryVars, assignFileVars, parserVars, uiVars>>

notFitVars == <<frameVars, matchVars, contactVars, qcVars, ransacVars, sessionVars, workflowVars, libraryVars, assignFileVars, parserVars, uiVars>>

notRansacVars == <<frameVars, matchVars, contactVars, qcVars, fitVars, sessionVars, workflowVars, libraryVars, assignFileVars, parserVars, uiVars>>

notSessionVars == <<frameVars, matchVars, contactVars, qcVars, fitVars, ransacVars, workflowVars, libraryVars, assignFileVars, parserVars, uiVars>>

notWorkflowVars == <<frameVars, matchVars, contactVars, qcVars, fitVars, ransacVars, sessionVars, libraryVars, assignFileVars, parserVars, uiVars>>

notLibraryVars == <<frameVars, matchVars, contactVars, qcVars, fitVars, ransacVars, sessionVars, workflowVars, assignFileVars, parserVars, uiVars>>

notAssignFileVars == <<frameVars, matchVars, contactVars, qcVars, fitVars, ransacVars, sessionVars, workflowVars, libraryVars, parserVars, uiVars>>

notParserVars == <<frameVars, matchVars, contactVars, qcVars, fitVars, ransacVars, sessionVars, workflowVars, libraryVars, assignFileVars, uiVars>>

notUiVars == <<frameVars, matchVars, contactVars, qcVars, fitVars, ransacVars, sessionVars, workflowVars, libraryVars, assignFileVars, parserVars>>

\* Python's None. Optional integers are kept as <<>> (None) or <<k>>.
None == <<>>

Some(k) == <<k>>

\* A component that a specification does not exercise stays idle.
IdleFrames ==
    /\ displays = <<>> /\ root_index = 0 /\ fpc = "idle" /\ loop_i = 0
    /\ refs = <<>> /\ cache = <<>> /\ active = {} /\ stack = <<>>
    /\ ferror = None /\ fresult = None /\ ncompose = 0

IdleMatch ==
    /\ m_trajectory = None /\ m_models = <<>> /\ m_model_ids = None
    /\ m_tolerance = 0 /\ mpc = "idle" /\ m_result = ""

IdleQc ==
    /\ q_planned = <<>> /\ q_final = <<>> /\ q_planned_contacts = <<>>
    /\ q_final_contacts = <<>> /\ qpc = "idle" /\ q_rows = None

IdleFit ==
    /\ e_points = <<>> /\ e_entry = <<>> /\ e_target = <<>> /\ e_offsets = <<>>
    /\ e_tip_at = "" /\ e_roi_radius = 0 /\ e_max_angle = 0 /\ e_max_depth_shift = 0
    /\ epc = "idle" /\ e_roi_pts = <<>> /\ e_slab_centroids = <<>> /\ e_iter = 0
    /\ e_best = None /\ e_fit = None /\ e_result = None

IdleRansac ==
    /\ r_points = <<>> /\ r_min_inliers = 0 /\ r_thr = 0 /\ rpc = "idle"
    /\ r_iter = 0 /\ r_best = None /\ r_result = None

IdleSession ==
    /\ s_names = <<>> /\ s_call = 0 /\ s_k = 0 /\ spc = "idle"
    /\ autoFitResults = <<>> /\ s_returned = <<>> /\ rng_pos = 0
    /\ numpy_choice = <<>> /\ numpy_eigh = <<>> /\ s_seed = 0

IdleWorkflow ==
    /\ w_ct = <<>> /\ w_loaded = <<>> /\ w_line = <<>> /\ w_candidates = 0
    /\ w_results = <<>> /\ w_preview = {} /\ w_last = <<>> /\ w_op = "idle"

IdleLibrary ==
    /\ l_data = <<>> /\ lpc = "idle" /\ l_k = 0 /\ l_seen_ids = {}
    /\ l_error = None /\ l_loaded = None

IdleAssignFile ==
    /\ af_text = <<>> /\ afpc = "idle" /\ af_result = None
    /\ af_error = None /\ af_saved = <<>> /\ af_reloaded = None

IdleParser ==
    /\ p_blocks = <<>> /\ p_tokens = <<>> /\ ppc = "idle"
    /\ p_displays = <<>> /\ p_imagery_refs = <<>>

IdleUi ==
    /\ u_table = <<>> /\ u_prefix_text = "" /\ u_line = <<>> /\ u_nodes = <<>>
    /\ lastGeneratedContacts = <<>> /\ lastAssignments = <<>> /\ u_op = "idle"

IdleContacts ==
    /\ g_trajectories = <<>> /\ g_models = <<>> /\ g_assignments = <<>>
    /\ gpc = "idle" /\ g_k = 0 /\ g_out = <<>> /\ g_missing = <<>>
    /\ g_error = None /\ g_result = None

----------------------------------------------------------------------------
(* Bounds of the model *)

\* largest number of displays in a call of build_effective_matrices
MaxFrames == 3

\* largest number of models in a catalog given to the matcher
MaxModels == 3

\* largest number of rows in the assignments given to generate_contacts
MaxAssignments == 2

\* largest number of trajectories in a call of compute_qc_metrics
MaxQcTrajectories == 2

\* largest number of iterations of the RANSAC loop that are told apart
MaxDraws == 2

\* largest number of models in an electrode library document
MaxLibraryModels == 2

\* largest number of imagery blocks in a .ros file
MaxImageryBlocks == 3

----------------------------------------------------------------------------
(* transforms.py: 4x4 matrices, as tuples of rows *)

identity_4x4 ==
    << <<1, 0, 0, 0>>, <<0, 1, 0, 0>>, <<0, 0, 1, 0>>, <<0, 0, 0, 1>> >>

\* out[i][j] = sum(a[i][k] * b[k][j] for k in range(4))
matmul4(a, b) ==
    [i \in 1..4 |-> [j \in 1..4 |->
        a[i][1] * b[1][j] + a[i][2] * b[2][j] + a[i][3] * b[3][j] + a[i][4] * b[4][j]]]

matmul_4x4(a, b) == matmul4(a, b)

\* Display matrices the calls are tried on: a translation, a rotation by 90
\* degrees about z and an anisotropic scaling.  No two of them commute.
MatTranslate ==
    << <<1, 0, 0, 1>>, <<0, 1, 0, 2>>, <<0, 0, 1, 3>>, <<0, 0, 0, 1>> >>

MatRotate ==
    << <<0, -1, 0, 0>>, <<1, 0, 0, 0>>, <<0, 0, 1, 0>>, <<0, 0, 0, 1>> >>

MatScale ==
    << <<2, 0, 0, 0>>, <<0, 1, 0, 0>>, <<0, 0, 3, 0>>, <<0, 0, 0, 1>> >>

MatrixPool == <<MatTranslate, MatRotate, MatScale>>

----------------------------------------------------------------------------
(* case_loader.py: build_effective_matrices *)

NumDisplays == Cardinality(DOMAIN displays)

\* The display lists of n frames tried: frame i carries one of two pool
\* matrices (so neighbouring frames never commute) and a reference that is
\* absent, a frame index, or the out-of-range values -1 and n.
FrameMatrices(i) == {MatrixPool[(i % 3) + 1], MatrixPool[((i + 1) % 3) + 1]}

RefValues(n) == {None} \cup {Some(k) : k \in -1..n}

DisplayLists(n) ==
    {d \in [0..(n - 1) -> [matrix : {MatTranslate, MatRotate, MatScale},
                           imagery_3dref : RefValues(n)]] :
        \A i \in 0..(n - 1) : d[i].matrix \in FrameMatrices(i)}

\* refs.append(ref if ref is not None else root_index); the variant also
\* puts the root in the place of a reference outside the frame indexes
NormalizeRefsInRange(d, root) ==
    [i \in DOMAIN d |->
        IF d[i].imagery_3dref = None THEN root
        ELSE IF d[i].imagery_3dref[1] \in DOMAIN d THEN d[i].imagery_3dref[1]
        ELSE root]

NormalizeRefs(d, root) ==
    [i \in DOMAIN d |-> IF d[i].imagery_3dref = None THEN root
                        ELSE d[i].imagery_3dref[1]]

\* root_index < 0 or root_index >= n
InvalidRootAbove(root, n) == root >= n

InvalidRoot(root, n) == root < 0 \/ root >= n

\* not isinstance(parent, int) or parent < 0 or parent >= n
InvalidParent(parent, n) == parent < 0 \/ parent >= n

\* the index a cycle error names: the frame to_root was entered for
CycleIndexOuter(stk) == stk[Len(stk)].i

CycleIndex(stk) == stk[1].i

\* composed = matmul_4x4(parent_to_root, displays[i]["matrix"])
ComposeSwapped(parent_to_root, m) == matmul_4x4(m, parent_to_root)

Compose(parent_to_root, m) == matmul_4x4(parent_to_root, m)

\* `if cache[i] is not None`; the variant never finds a frame memoized
CachedNever(c, i) == FALSE

Cached(c, i) == c[i] # None

FramesCall ==
    /\ \E n \in 0..MaxFrames :
        /\ displays \in DisplayLists(n)
        /\ root_index \in -1..n
    /\ fpc = "call"
    /\ loop_i = 0
    /\ refs = <<>>
    /\ cache = <<>>
    /\ active = {}
    /\ stack = <<>>
    /\ ferror = None
    /\ fresult = None
    /\ ncompose = 0

FrameRaise(kind, idx) ==
    /\ fpc' = "error"
    /\ ferror' = [kind |-> kind, index |-> idx]
    /\ stack' = <<>>

\* raise ValueError(f"Invalid IMAGERY_3DREF={parent} for display index {i} ...")
FrameRaiseRef(idx, parent) ==
    /\ fpc' = "error"
    /\ ferror' = [kind |-> "invalid_ref", index |-> idx, ref |-> parent]
    /\ stack' = <<>>

\* lines 81-96: empty input, root_index check, reference normalization
BuildStart ==
    /\ fpc = "call"
    /\ LET n == NumDisplays IN
        IF n = 0
        THEN /\ fpc' = "done"
             /\ fresult' = <<>>
             /\ UNCHANGED <<refs, cache, ferror, stack>>
        ELSE IF InvalidRoot(root_index, n)
        THEN /\ FrameRaise("root_index", root_index)
             /\ UNCHANGED <<refs, cache, fresult>>
        ELSE /\ fpc' = "loop"
             /\ refs' = NormalizeRefs(displays, root_index)
             /\ cache' = [i \in 0..(n - 1) |-> None]
             /\ UNCHANGED <<ferror, fresult, stack>>
    /\ UNCHANGED <<displays, root_index, loop_i, active, ncompose>>
    /\ UNCHANGED notFrameVars

\* lines 122-125: `for i in range(n): to_root(i)` and `return cache`
LoopStep ==
    /\ fpc = "loop"
    /\ stack = <<>>
    /\ IF loop_i = NumDisplays
       THEN /\ fpc' = "done"
            /\ fresult' = cache
            /\ UNCHANGED <<loop_i, stack>>
       ELSE /\ stack' = <<[i |-> loop_i, phase |-> "enter"]>>
            /\ loop_i' = loop_i + 1
            /\ UNCHANGED <<fpc, fresult>>
    /\ UNCHANGED <<displays, root_index, refs, cache, active, ferror, ncompose>>
    /\ UNCHANGED notFrameVars

\* lines 98-115: to_root(i) from its entry to its return, its raise or its
\* recursive call to_root(parent)
ToRootEnter ==
    /\ fpc = "loop"
    /\ stack # <<>>
    /\ stack[1].phase = "enter"
    /\ LET i == stack[1].i
           n == NumDisplays
       IN  IF Cached(cache, i)
           THEN /\ stack' = Tail(stack)
                /\ UNCHANGED <<cache, active, fpc, ferror>>
           ELSE IF i = root_index
           THEN /\ cache' = [cache EXCEPT ![i] = identity_4x4]
                /\ stack' = Tail(stack)
                /\ UNCHANGED <<active, fpc, ferror>>
           ELSE IF i \in active
           THEN /\ FrameRaise("cycle", CycleIndex(stack))
                /\ UNCHANGED <<cache, active>>
           ELSE IF InvalidParent(refs[i], n)
           THEN /\ FrameRaiseRef(i, refs[i])
                /\ active' = active \cup {i}
                /\ UNCHANGED cache
           ELSE /\ active' = active \cup {i}
                /\ stack' = <<[i |-> refs[i], phase |-> "enter"],
                              [i |-> i, phase |-> "await"]>> \o Tail(stack)
                /\ UNCHANGED <<cache, fpc, ferror>>
    /\ UNCHANGED <<displays, root_index, loop_i, refs, fresult, ncompose>>
    /\ UNCHANGED notFrameVars

\* lines 115-120: to_root(parent) has returned cache[parent]; compose, memoize
ToRootCompose ==
    /\ fpc = "loop"
    /\ stack # <<>>
    /\ stack[1].phase = "await"
    /\ LET i == stack[1].i
           parent_to_root == cache[refs[i]]
       IN  /\ cache' = [cache EXCEPT ![i] = Compose(parent_to_root, displays[i].matrix)]
           /\ active' = active \ {i}
           /\ stack' = Tail(stack)
           /\ ncompose' = ncompose + 1
    /\ UNCHANGED <<displays, root_index, fpc, loop_i, refs, ferror, fresult>>
    /\ UNCHANGED notFrameVars

NextFrames == BuildStart \/ LoopStep \/ ToRootEnter \/ ToRootCompose

InitFrames == FramesCall /\ IdleMatch /\ IdleContacts /\ IdleQc /\ IdleFit /\ IdleRansac /\ IdleSession /\ IdleWorkflow /\ IdleLibrary /\ IdleAssignFile /\ IdleParser /\ IdleUi

SpecFrames == InitFrames /\ [][NextFrames]_vars

\* The calls whose frame i carries the first of its two matrices, with the
\* interpreter running every call to its return or its raise.
FramesCallPlain == FramesCall /\ \A i \in DOMAIN displays : displays[i].matrix = MatrixPool[(i % 3) + 1]

InitFramesRun == FramesCallPlain /\ IdleMatch /\ IdleContacts /\ IdleQc /\ IdleFit /\ IdleRansac /\ IdleSession /\ IdleWorkflow /\ IdleLibrary /\ IdleAssignFile /\ IdleParser /\ IdleUi

SpecFramesRun == InitFramesRun /\ [][NextFrames]_vars /\ WF_vars(NextFrames)


----------------------------------------------------------------------------
(* Reference graphs, as the claims speak of them *)

FrameIndexes == DOMAIN displays

RootValid == root_index \in FrameIndexes

\* the frame a frame refers to: an absent reference counts as the root
ParentOf(i) ==
    IF displays[i].imagery_3dref = None THEN root_index
    ELSE displays[i].imagery_3dref[1]

\* the frame reached from i by following k references (i itself once the
\* walk has left the frame indexes)
RECURSIVE Walk(_, _)
Walk(i, k) ==
    IF k = 0 \/ i \notin FrameIndexes THEN i ELSE Walk(ParentOf(i), k - 1)

\* the references followed from i reach the root
ReachesRoot(i) == \E k \in 0..NumDisplays : Walk(i, k) = root_index

Acyclic == \A i \in FrameIndexes : ReachesRoot(i)

\* i lies on a reference cycle that the root is not a member of
OnCycleOffRoot(i) ==
    /\ i \in FrameIndexes
    /\ \E k \in 1..NumDisplays :
        /\ Walk(i, k) = i
        /\ \A m \in 0..k : Walk(i, m) # root_index

\* the manually traced parent chain of i: i, parent(i), ... up to, and
\* without, the root
RECURSIVE ChainOf(_)
ChainOf(i) == IF i = root_index THEN <<>> ELSE <<i>> \o ChainOf(ParentOf(i))

\* M(c_m) x ... x M(c_2) x M(c_1) for the chain <<c_1, ..., c_m>>
RECURSIVE ProductAlong(_)
ProductAlong(chain) ==
    IF chain = <<>> THEN identity_4x4
    ELSE matmul4(ProductAlong(Tail(chain)), displays[chain[1]].matrix)

FramesReturned == fpc = "done"

FramesFailed == fpc = "error"

AllRefsInRange ==
    \A i \in FrameIndexes \ {root_index} :
        displays[i].imagery_3dref = None \/ ParentOf(i) \in FrameIndexes

\* C1: for an acyclic reference graph and a valid root the call returns one
\* matrix per frame, the identity for the root and, for every other frame,
\* to_root(parent) x matrix = the ordered product along its parent chain.
C1_ChainProduct ==
    (fpc \in {"done", "error"} /\ RootValid /\ Acyclic) =>
        /\ FramesReturned
        /\ DOMAIN fresult = FrameIndexes
        /\ fresult[root_index] = identity_4x4
        /\ \A i \in FrameIndexes \ {root_index} :
            /\ fresult[i] = matmul4(fresult[ParentOf(i)], displays[i].matrix)
            /\ fresult[i] = ProductAlong(ChainOf(i))

\* C1 witness: a returned call on three frames with a chain of two
\* references, an absent reference and a root that carries a reference.
C1_Witness ==
    /\ FramesReturned /\ NumDisplays = 3 /\ RootValid /\ Acyclic
    /\ displays[root_index].imagery_3dref # None
    /\ \E i, j \in FrameIndexes \ {root_index} :
        /\ i # j
        /\ displays[i].imagery_3dref = Some(j)
        /\ displays[j].imagery_3dref = None
        /\ fresult[i] = matmul4(displays[j].matrix, displays[i].matrix)
        /\ fresult[i] # matmul4(displays[i].matrix, displays[j].matrix)

\* C2 as stated: a cycle that the (valid) root is not a member of makes the
\* call fail with a cycle error naming a frame on such a cycle, and no
\* matrices are returned.
C2_CycleErrorAlways ==
    (fpc \in {"done", "error"} /\ RootValid /\ \E i \in FrameIndexes : OnCycleOffRoot(i)) =>
        /\ FramesFailed
        /\ ferror.kind = "cycle"
        /\ OnCycleOffRoot(ferror.index)
        /\ fresult = None

\* C2 as amended: the same, for graphs in which every non-root frame's
\* reference is absent or a frame index.
C2_CycleError ==
    (/\ fpc \in {"done", "error"} /\ RootValid /\ AllRefsInRange
     /\ \E i \in FrameIndexes : OnCycleOffRoot(i)) =>
        /\ FramesFailed
        /\ ferror.kind = "cycle"
        /\ OnCycleOffRoot(ferror.index)
        /\ fresult = None

\* C2 witness: a cycle error raised for a frame that is not the one the
\* outer loop asked for (the loop's frame only leads into the cycle).
C2_Witness ==
    /\ FramesFailed /\ RootValid /\ AllRefsInRange
    /\ ferror.kind = "cycle"
    /\ OnCycleOffRoot(ferror.index)
    /\ \E i \in FrameIndexes \ {root_index} :
        /\ i < ferror.index
        /\ ~OnCycleOffRoot(i)
        /\ ParentOf(i) = ferror.index

----------------------------------------------------------------------------
(* assignments.py: suggest_model_id_for_trajectory                         *)
(* Lengths are integers in units of 0.25e-6 mm, so that the code's epsilon *)
(* 1e-6 is four units and lengths that differ by less, or by a little     *)
(* more, than the epsilon can be told apart.                               *)

Mm(x) == x * 4000000

\* the 1e-6 of the comparisons, in units of 0.25e-6 mm
Eps == 4

Abs(x) == IF x < 0 THEN -x ELSE x

\* the largest r in lo..hi with r * r <= s
RECURSIVE SqrtSearch(_, _, _)
SqrtSearch(s, lo, hi) ==
    IF lo >= hi THEN lo
    ELSE LET mid == (lo + hi + 1) \div 2
         IN  IF mid * mid <= s THEN SqrtSearch(s, mid, hi) ELSE SqrtSearch(s, lo, mid - 1)

\* math.sqrt: exact on perfect squares (the inputs keep the norms that are
\* compared exact), rounded down otherwise
ISqrt(s) == SqrtSearch(s, 0, IF s < 46340 THEN s ELSE 46340)

\* sqrt(dx*dx + dy*dy + dz*dz).  For a vector along a coordinate axis the
\* float result is exactly the absolute value of its non-zero component.
Norm3(v) ==
    IF v[1] = 0 /\ v[2] = 0 THEN Abs(v[3])
    ELSE IF v[1] = 0 /\ v[3] = 0 THEN Abs(v[2])
    ELSE IF v[2] = 0 /\ v[3] = 0 THEN Abs(v[1])
    ELSE ISqrt(v[1] * v[1] + v[2] * v[2] + v[3] * v[3])

trajectory_length_mm(trajectory) ==
    Norm3(<<trajectory.end[1] - trajectory.start[1],
            trajectory.end[2] - trajectory.start[2],
            trajectory.end[3] - trajectory.start[3]>>)

\* Model ids in lexical order; "Z" is the id callers pass that no catalog has.
IdPool == <<"A", "B", "C", "D", "E", "Z">>

IdRank(id) == CHOOSE k \in 1..Len(IdPool) : IdPool[k] = id

\* model_id < best_id on strings
IdLess(a, b) == IdRank(a) < IdRank(b)

\* models_by_id.get(model_id, {}) followed by electrode_length_mm(model) and
\* int(model.get("contact_count", 0)): an id the catalog lacks reads as a
\* model of length 0.0 with 0 contacts
ModelGet(models, id) ==
    IF id \in DOMAIN models THEN models[id]
    ELSE [total_exploration_length_mm |-> 0, contact_count |-> 0]

electrode_length_mm(model) == model.total_exploration_length_mm

\* sorted(models_by_id.keys())
RECURSIVE SortedIds(_)
SortedIds(ids) ==
    IF ids = {} THEN <<>>
    ELSE LET first == CHOOSE a \in ids : \A b \in ids : ~IdLess(b, a)
         IN  <<first>> \o SortedIds(ids \ {first})

\* delta > float(tolerance_mm) + 1e-6
OutOfToleranceTwice(delta, tolerance_mm) == delta > tolerance_mm + 2 * Eps

OutOfTolerance(delta, tolerance_mm) == delta > tolerance_mm + Eps

\* the condition under which the loop replaces the best model so far
ReplacesBestFewerContacts(model_id, delta, model_len, contact_count, best) ==
    \/ best.delta = None
    \/ delta < best.delta[1] - Eps
    \/ (Abs(delta - best.delta[1]) <= Eps /\ contact_count < best.contacts)
    \/ (/\ Abs(delta - best.delta[1]) <= Eps
        /\ contact_count = best.contacts
        /\ model_len < best.len - Eps)
    \/ (/\ Abs(delta - best.delta[1]) <= Eps
        /\ contact_count = best.contacts
        /\ Abs(model_len - best.len) <= Eps
        /\ IdLess(model_id, best.id))

ReplacesBest(model_id, delta, model_len, contact_count, best) ==
    \/ best.delta = None
    \/ delta < best.delta[1] - Eps
    \/ (Abs(delta - best.delta[1]) <= Eps /\ contact_count > best.contacts)
    \/ (/\ Abs(delta - best.delta[1]) <= Eps
        /\ contact_count = best.contacts
        /\ model_len < best.len - Eps)
    \/ (/\ Abs(delta - best.delta[1]) <= Eps
        /\ contact_count = best.contacts
        /\ Abs(model_len - best.len) <= Eps
        /\ IdLess(model_id, best.id))

\* the body of `for model_id in candidates`, from candidate k on
RECURSIVE SuggestLoop(_, _, _, _, _, _)
SuggestLoop(candidates, k, models, traj_len, tolerance_mm, best) ==
    IF k > Len(candidates) THEN best
    ELSE LET model_id == candidates[k]
             model == ModelGet(models, model_id)
             model_len == electrode_length_mm(model)
             delta == Abs(model_len - traj_len)
             contact_count == model.contact_count
             next ==
                 IF OutOfTolerance(delta, tolerance_mm) THEN best
                 ELSE IF ReplacesBest(model_id, delta, model_len, contact_count, best)
                 THEN [id |-> model_id, delta |-> Some(delta), len |-> model_len,
                       contacts |-> contact_count]
                 ELSE best
         IN  SuggestLoop(candidates, k + 1, models, traj_len, tolerance_mm, next)

Candidates(models, model_ids) ==
    IF model_ids # None THEN model_ids[1] ELSE SortedIds(DOMAIN models)

suggest_model_id_for_trajectory(trajectory, models, model_ids, tolerance_mm) ==
    SuggestLoop(Candidates(models, model_ids), 1, models,
                trajectory_length_mm(trajectory), tolerance_mm,
                [id |-> "", delta |-> None, len |-> 0, contacts |-> -1]).id


\* Catalog entries tried with a 41 mm trajectory and the 5 mm tolerance:
\* deltas of 1 mm from either side, deltas 0.75e-6 mm (a tie) and 1.5e-6 mm
\* (no tie) apart, and deltas just inside and just outside tolerance + 1e-6.
ModelChoices ==
    { [total_exploration_length_mm |-> Mm(40), contact_count |-> 10],
      [total_exploration_length_mm |-> Mm(40), contact_count |-> 12],
      [total_exploration_length_mm |-> Mm(42), contact_count |-> 8],
      [total_exploration_length_mm |-> Mm(42), contact_count |-> 12],
      [total_exploration_length_mm |-> Mm(42) + 3, contact_count |-> 10],
      [total_exploration_length_mm |-> Mm(42) + 6, contact_count |-> 12],
      [total_exploration_length_mm |-> Mm(42) + 6, contact_count |-> 8],
      [total_exploration_length_mm |-> Mm(46) + 3, contact_count |-> 8],
      [total_exploration_length_mm |-> Mm(46) + 6, contact_count |-> 12] }

CatalogIds(n) == {IdPool[k] : k \in 1..n}

Reverse(seq) == [k \in 1..Len(seq) |-> seq[Len(seq) + 1 - k]]

Rotate(seq) == IF seq = <<>> THEN seq ELSE Tail(seq) \o <<seq[1]>>

\* model_ids arguments tried: the default, and the catalog's ids reversed
\* or rotated, alone or after the id "Z" that the catalog lacks
ModelIdsChoices(n) ==
    LET sorted == SortedIds(CatalogIds(n))
    IN  {None, Some(Reverse(sorted)), Some(Rotate(sorted)),
         Some(<<"Z">> \o Reverse(sorted)), Some(<<"Z">> \o Rotate(sorted))}

MatchCall ==
    /\ \E n \in 0..MaxModels :
        /\ m_models \in [CatalogIds(n) -> ModelChoices]
        /\ m_model_ids \in ModelIdsChoices(n)
    /\ m_trajectory \in { [start |-> <<0, 0, 0>>, end |-> <<0, 0, Mm(41)>>],
                          [start |-> <<Mm(4), Mm(1), 0>>, end |-> <<0, Mm(1), 0>>] }
    /\ m_tolerance = Mm(5)
    /\ mpc = "call"
    /\ m_result = ""

Suggest ==
    /\ mpc = "call"
    /\ mpc' = "done"
    /\ m_result' = suggest_model_id_for_trajectory(m_trajectory, m_models,
                                                   m_model_ids, m_tolerance)
    /\ UNCHANGED <<m_trajectory, m_models, m_model_ids, m_tolerance>>
    /\ UNCHANGED notMatchVars

NextMatch == Suggest

InitMatch == MatchCall /\ IdleFrames /\ IdleContacts /\ IdleQc /\ IdleFit /\ IdleRansac /\ IdleSession /\ IdleWorkflow /\ IdleLibrary /\ IdleAssignFile /\ IdleParser /\ IdleUi

SpecMatch == InitMatch /\ [][NextMatch]_vars

----------------------------------------------------------------------------
(* The matcher's priority order, as the claims speak of it *)

CandidateIds ==
    LET cs == Candidates(m_models, m_model_ids) IN {cs[k] : k \in DOMAIN cs}

DeltaOf(id) ==
    Abs(ModelGet(m_models, id).total_exploration_length_mm
        - trajectory_length_mm(m_trajectory))

WithinTolerance == {id \in CandidateIds : DeltaOf(id) <= m_tolerance + Eps}

\* a is strictly better than b under the priority order: smaller delta,
\* then more contacts, then shorter, then lexically smaller id, where values
\* at most one epsilon apart tie
Better(a, b) ==
    LET ma == ModelGet(m_models, a)
        mb == ModelGet(m_models, b)
        tie_delta == Abs(DeltaOf(a) - DeltaOf(b)) <= Eps
        tie_len == Abs(ma.total_exploration_length_mm
                       - mb.total_exploration_length_mm) <= Eps
    IN  \/ DeltaOf(a) < DeltaOf(b) - Eps
        \/ tie_delta /\ ma.contact_count > mb.contact_count
        \/ /\ tie_delta /\ ma.contact_count = mb.contact_count
           /\ ma.total_exploration_length_mm < mb.total_exploration_length_mm - Eps
        \/ /\ tie_delta /\ ma.contact_count = mb.contact_count /\ tie_len
           /\ IdLess(a, b)

IsBest(a) == a \in WithinTolerance /\ \A b \in WithinTolerance \ {a} : Better(a, b)

\* C4: the returned id is a candidate within tolerance whenever there is one,
\* and it is the candidate that is better than every other one, under the
\* priority order, whenever the candidates have such a best one.
C4_BestUnderPriority ==
    mpc = "done" =>
        /\ (WithinTolerance # {} => m_result \in WithinTolerance)
        /\ \A a \in WithinTolerance : IsBest(a) => m_result = a

\* C4 witness: the spec's example.  A (40 mm, 10 contacts), B (42 mm, 8) and
\* C (42 mm, 12) with a 41 mm trajectory and tolerance 5 mm select C.
C4_Witness ==
    /\ mpc = "done"
    /\ m_model_ids = None
    /\ trajectory_length_mm(m_trajectory) = Mm(41)
    /\ m_tolerance = Mm(5)
    /\ DOMAIN m_models = {"A", "B", "C"}
    /\ m_models["A"] = [total_exploration_length_mm |-> Mm(40), contact_count |-> 10]
    /\ m_models["B"] = [total_exploration_length_mm |-> Mm(42), contact_count |-> 8]
    /\ m_models["C"] = [total_exploration_length_mm |-> Mm(42), contact_count |-> 12]
    /\ IsBest("C")
    /\ m_result = "C"

\* C4 witness of the epsilon: the best model's delta is larger than another
\* candidate's, by no more than the epsilon, and it wins on contacts.
C4_WitnessEpsilonTie ==
    /\ mpc = "done"
    /\ IsBest(m_result)
    /\ \E b \in WithinTolerance : DeltaOf(b) < DeltaOf(m_result)


----------------------------------------------------------------------------
(* contacts.py: generate_contacts.  Coordinates and offsets are integers   *)
(* in mm; the trajectories tried lie along coordinate axes, so that unit   *)
(* vectors are integer vectors.                                            *)

\* _sub, _add, _mul
Sub3(a, b) == <<a[1] - b[1], a[2] - b[2], a[3] - b[3]>>

Add3(a, b) == <<a[1] + b[1], a[2] + b[2], a[3] + b[3]>>

Mul3(v, k) == <<v[1] * k, v[2] * k, v[3] * k>>

\* _unit: None stands for the raised ValueError("Zero-length ...")
Unit3(v) ==
    LET n == Norm3(v)
    IN  IF n = 0 THEN None ELSE <<v[1] \div n, v[2] \div n, v[3] \div n>>

\* str.lower() on the tip_at values tried
Lower(str) ==
    CASE str = "Entry" -> "entry"
      [] str = "TARGET" -> "target"
      [] OTHER -> str

\* (tip_at or "target").lower()
TipAtNorm(tip_at) == IF tip_at = "" THEN "target" ELSE Lower(tip_at)

\* _tip_and_axis: [err, tip, axis]
TipAndAxisSameAxis(trajectory, tip_at) ==
    LET entry == trajectory.start
        target == trajectory.end
        tip_at_norm == TipAtNorm(tip_at)
        axis == Unit3(Sub3(target, entry))
    IN  IF tip_at_norm \notin {"target", "entry"}
        THEN [err |-> "invalid_tip_at", tip |-> None, axis |-> None]
        ELSE IF axis = None
        THEN [err |-> "zero_length", tip |-> None, axis |-> None]
        ELSE [err |-> "", tip |-> IF tip_at_norm = "target" THEN target ELSE entry,
              axis |-> axis]

TipAndAxis(trajectory, tip_at) ==
    LET entry == trajectory.start
        target == trajectory.end
        tip_at_norm == TipAtNorm(tip_at)
    IN  IF tip_at_norm = "target"
        THEN LET axis == Unit3(Sub3(entry, target))
             IN  IF axis = None
                 THEN [err |-> "zero_length", tip |-> None, axis |-> None]
                 ELSE [err |-> "", tip |-> target, axis |-> axis]
        ELSE IF tip_at_norm = "entry"
        THEN LET axis == Unit3(Sub3(target, entry))
             IN  IF axis = None
                 THEN [err |-> "zero_length", tip |-> None, axis |-> None]
                 ELSE [err |-> "", tip |-> entry, axis |-> axis]
        ELSE [err |-> "invalid_tip_at", tip |-> None, axis |-> None]

\* ContactRecord with the index counted from 0 (enumerate without start=1)
ContactRecordFromZero(trajectory, model, assignment, tip, axis, idx) ==
    [trajectory |-> trajectory.name,
     model_id |-> model.id,
     index |-> idx - 1,
     label |-> <<trajectory.name, idx - 1>>,
     position_lps |->
         Add3(tip, Mul3(axis, model.contact_center_offsets_from_tip_mm[idx])),
     tip_at |-> assignment.tip_at]

\* the contact appended for offset number idx
ContactRecord(trajectory, model, assignment, tip, axis, idx) ==
    [trajectory |-> trajectory.name,
     model_id |-> model.id,
     index |-> idx,
     label |-> <<trajectory.name, idx>>,
     position_lps |->
         Add3(tip, Mul3(axis, model.contact_center_offsets_from_tip_mm[idx])),
     tip_at |-> assignment.tip_at]

\* generate_contacts_for_assignment: [err, contacts]
generate_contacts_for_assignment(trajectory, model, assignment) ==
    IF Len(assignment.xyz_offset_mm) # 3
    THEN [err |-> "xyz_offset_len", contacts |-> <<>>]
    ELSE LET ta == TipAndAxis(trajectory, assignment.tip_at)
         IN  IF ta.err # ""
             THEN [err |-> ta.err, contacts |-> <<>>]
             ELSE LET tip == Add3(Add3(ta.tip, Mul3(ta.axis, assignment.tip_shift_mm)),
                                  assignment.xyz_offset_mm)
                      offsets == model.contact_center_offsets_from_tip_mm
                  IN  [err |-> "",
                       contacts |-> [idx \in 1..Len(offsets) |->
                           ContactRecord(trajectory, model, assignment, tip, ta.axis, idx)]]

\* traj_map = {t["name"]: t for t in trajectories}: the last one of a name
TrajNames(trajectories) == {trajectories[k].name : k \in DOMAIN trajectories}

TrajMap(trajectories) ==
    [name \in TrajNames(trajectories) |->
        trajectories[CHOOSE k \in DOMAIN trajectories :
            /\ trajectories[k].name = name
            /\ \A j \in DOMAIN trajectories : trajectories[j].name = name => j <= k]]

\* the entry appended to `missing` for a row, None when none is appended:
\* a row whose trajectory is unknown is not asked for its model
MissingEntry(traj_names, model_ids, a) ==
    IF a.trajectory \notin traj_names THEN Some(<<"trajectory", a.trajectory>>)
    ELSE IF a.model_id \notin model_ids THEN Some(<<"model", a.model_id>>)
    ELSE None

\* The arguments tried: three trajectories (one of zero length), two models.
TrajectoryList ==
    << [name |-> "T1", start |-> <<0, 0, 0>>, end |-> <<0, 0, 50>>],
       [name |-> "T2", start |-> <<10, 4, 4>>, end |-> <<-10, 4, 4>>],
       [name |-> "TZ", start |-> <<5, 5, 5>>, end |-> <<5, 5, 5>>] >>

ModelsById ==
    [id \in {"M3", "M2"} |->
        [id |-> id,
         contact_center_offsets_from_tip_mm |->
             IF id = "M3" THEN <<2, 6, 10>> ELSE <<1, 4>>]]

\* (trajectory, model_id) of a row: known and unknown names, no model
RowReferences ==
    { <<"T1", "M3">>, <<"T2", "M2">>, <<"TZ", "M3">>, <<"T1", "">>, <<"T9", "">>,
      <<"T9", "M3">>, <<"T1", "NOPE">>, <<"T8", "NOPE">> }

\* (tip_at, tip_shift_mm, xyz_offset_mm) of a row
RowPlacements ==
    { <<"target", 0, <<0, 0, 0>> >>, <<"entry", 0, <<0, 0, 0>> >>,
      <<"Entry", 2, <<1, -1, 0>> >>, <<"", -3, <<0, 2, 0>> >>,
      <<"tip", 0, <<0, 0, 0>> >>, <<"target", 0, <<1, 2>> >> }

AssignmentRows ==
    { [trajectory |-> r[1], model_id |-> r[2], tip_at |-> p[1],
       tip_shift_mm |-> p[2], xyz_offset_mm |-> p[3]] :
        r \in RowReferences, p \in RowPlacements }

ContactsCall ==
    /\ g_trajectories = TrajectoryList
    /\ g_models = ModelsById
    /\ \E n \in 0..MaxAssignments : g_assignments \in [1..n -> AssignmentRows]
    /\ gpc = "call"
    /\ g_k = 0
    /\ g_out = <<>>
    /\ g_missing = <<>>
    /\ g_error = None
    /\ g_result = None

\* lines 134-136: traj_map, out = [], missing = []
GenStart ==
    /\ gpc = "call"
    /\ gpc' = "loop"
    /\ UNCHANGED <<g_trajectories, g_models, g_assignments, g_k, g_out, g_missing,
                   g_error, g_result>>
    /\ UNCHANGED notContactVars

\* lines 137-149: one iteration of `for a in assignments.get(...)`
GenRow ==
    /\ gpc = "loop"
    /\ g_k < Len(g_assignments)
    /\ LET a == g_assignments[g_k + 1]
           traj_map == TrajMap(g_trajectories)
           miss == MissingEntry(DOMAIN traj_map, DOMAIN g_models, a)
       IN  IF a.model_id = ""
           THEN /\ g_k' = g_k + 1
                /\ UNCHANGED <<gpc, g_out, g_missing, g_error>>
           ELSE IF miss # None
           THEN /\ g_missing' = Append(g_missing, miss[1])
                /\ g_k' = g_k + 1
                /\ UNCHANGED <<gpc, g_out, g_error>>
           ELSE LET r == generate_contacts_for_assignment(
                             traj_map[a.trajectory], g_models[a.model_id], a)
                IN  IF r.err # ""
                    THEN /\ gpc' = "error"
                         /\ g_error' = [kind |-> r.err, missing |-> <<>>]
                         /\ UNCHANGED <<g_k, g_out, g_missing>>
                    ELSE /\ g_out' = g_out \o r.contacts
                         /\ g_k' = g_k + 1
                         /\ UNCHANGED <<gpc, g_missing, g_error>>
    /\ UNCHANGED <<g_trajectories, g_models, g_assignments, g_result>>
    /\ UNCHANGED notContactVars

\* lines 150-152: raise the aggregated error, or return out
GenFinish ==
    /\ gpc = "loop"
    /\ g_k = Len(g_assignments)
    /\ IF g_missing # <<>>
       THEN /\ gpc' = "error"
            /\ g_error' = [kind |-> "missing_references", missing |-> g_missing]
            /\ UNCHANGED g_result
       ELSE /\ gpc' = "done"
            /\ g_result' = g_out
            /\ UNCHANGED g_error
    /\ UNCHANGED <<g_trajectories, g_models, g_assignments, g_k, g_out, g_missing>>
    /\ UNCHANGED notContactVars

NextContacts == GenStart \/ GenRow \/ GenFinish

InitContacts == ContactsCall /\ IdleFrames /\ IdleMatch /\ IdleQc /\ IdleFit /\ IdleRansac /\ IdleSession /\ IdleWorkflow /\ IdleLibrary /\ IdleAssignFile /\ IdleParser /\ IdleUi

SpecContacts == InitContacts /\ [][NextContacts]_vars

----------------------------------------------------------------------------
(* Contact placement, as the claims speak of it *)

\* the vector u with u * |v| = v, for a non-zero v along a coordinate axis
UnitOf(v) ==
    CHOOSE u \in {-1, 0, 1} \X {-1, 0, 1} \X {-1, 0, 1} : Mul3(u, Norm3(v)) = v

GTrajectory(name) ==
    g_trajectories[CHOOSE k \in DOMAIN g_trajectories : g_trajectories[k].name = name]

RowTipAt(a) == TipAtNorm(a.tip_at)

\* (tip, axis) = (target, unit(entry - target)) or (entry, unit(target - entry))
ResolvedTip(a) ==
    IF RowTipAt(a) = "target" THEN GTrajectory(a.trajectory).end
    ELSE GTrajectory(a.trajectory).start

ResolvedAxis(a) ==
    LET t == GTrajectory(a.trajectory)
    IN  IF RowTipAt(a) = "target" THEN UnitOf(Sub3(t.start, t.end))
        ELSE UnitOf(Sub3(t.end, t.start))

\* tip + axis * tip_shift_mm + xyz_offset_mm
WorkingTip(a) ==
    Add3(Add3(ResolvedTip(a), Mul3(ResolvedAxis(a), a.tip_shift_mm)), a.xyz_offset_mm)

\* working_tip + axis * offset_k, for every offset of the row's model
RowPositions(a) ==
    LET offsets == g_models[a.model_id].contact_center_offsets_from_tip_mm
    IN  [k \in 1..Len(offsets) |-> Add3(WorkingTip(a), Mul3(ResolvedAxis(a), offsets[k]))]

\* a row that refers to a known trajectory and a known model
RowResolves(a) ==
    /\ a.model_id # ""
    /\ a.trajectory \in TrajNames(g_trajectories)
    /\ a.model_id \in DOMAIN g_models

RECURSIVE ExpectedPositions(_)
ExpectedPositions(k) ==
    IF k = 0 THEN <<>>
    ELSE ExpectedPositions(k - 1)
         \o (IF RowResolves(g_assignments[k]) THEN RowPositions(g_assignments[k])
             ELSE <<>>)

\* C3: the contacts generated for the rows processed so far lie, in order,
\* at working_tip + axis * offset_k with (tip, axis) resolved from tip_at.
C3_ContactPositions ==
    gpc \in {"loop", "done", "error"} =>
        [i \in DOMAIN g_out |-> g_out[i].position_lps] = ExpectedPositions(g_k)

\* C3 witness: the spec's example (entry (0,0,0), target (0,0,50), tip at
\* target, offsets [2,6,10]: contact 1 at (0,0,48), contact 3 at (0,0,40)),
\* followed by a row with the tip at the entry, a tip shift and an offset.
C3_Witness ==
    /\ gpc = "done"
    /\ Len(g_assignments) = 2
    /\ g_assignments[1] = [trajectory |-> "T1", model_id |-> "M3", tip_at |-> "target",
                           tip_shift_mm |-> 0, xyz_offset_mm |-> <<0, 0, 0>>]
    /\ GTrajectory("T1").start = <<0, 0, 0>>
    /\ GTrajectory("T1").end = <<0, 0, 50>>
    /\ g_models["M3"].contact_center_offsets_from_tip_mm = <<2, 6, 10>>
    /\ g_result[1].position_lps = <<0, 0, 48>>
    /\ g_result[3].position_lps = <<0, 0, 40>>
    /\ g_assignments[2] = [trajectory |-> "T2", model_id |-> "M2", tip_at |-> "Entry",
                           tip_shift_mm |-> 2, xyz_offset_mm |-> <<1, -1, 0>>]
    /\ Len(g_result) = 5
    /\ g_result[4].position_lps = <<8, 3, 4>>
    /\ g_result[5].position_lps = <<5, 3, 4>>

\* the rows that name a model and refer to an unknown trajectory / model
RowsMissingTrajectory ==
    {k \in DOMAIN g_assignments :
        /\ g_assignments[k].model_id # ""
        /\ g_assignments[k].trajectory \notin TrajNames(g_trajectories)}

RowsMissingModel ==
    {k \in DOMAIN g_assignments :
        /\ g_assignments[k].model_id # ""
        /\ g_assignments[k].model_id \notin DOMAIN g_models}

\* no row is rejected by generate_contacts_for_assignment itself
RowsWellFormed ==
    \A k \in DOMAIN g_assignments :
        /\ Len(g_assignments[k].xyz_offset_mm) = 3
        /\ RowTipAt(g_assignments[k]) \in {"target", "entry"}
        /\ g_assignments[k].trajectory # "TZ"

Named(entry) == \E i \in DOMAIN g_error.missing : g_error.missing[i] = entry

\* C10: when rows (all of them well formed) refer to unknown trajectories or
\* models, the call ends, after the whole list, in one aggregated error that
\* names every unknown trajectory and every unknown model id of any row, and
\* returns no contacts.
C10_AggregatedErrorNamesAll ==
    (/\ gpc \in {"done", "error"} /\ RowsWellFormed
     /\ RowsMissingTrajectory \cup RowsMissingModel # {}) =>
        /\ gpc = "error"
        /\ g_error.kind = "missing_references"
        /\ g_k = Len(g_assignments)
        /\ g_result = None
        /\ \A k \in RowsMissingTrajectory :
            Named(<<"trajectory", g_assignments[k].trajectory>>)
        /\ \A k \in RowsMissingModel : Named(<<"model", g_assignments[k].model_id>>)

----------------------------------------------------------------------------
(* qc.py: compute_qc_metrics.  Coordinates are integers in mm; the planned *)
(* and final trajectories tried lie along coordinate axes and the          *)
(* displacements tried have integer radial lengths, so that every metric   *)
(* is an integer.                                                          *)

\* _vdot
Dot3(a, b) == a[1] * b[1] + a[2] * b[2] + a[3] * b[3]

\* math.degrees(math.acos(dot)) for the dot products of axis-aligned units
AcosDeg(dot) ==
    CASE dot = 1 -> 0
      [] dot = 0 -> 90
      [] dot = -1 -> 180

\* _radial_error_mm: |delta_vec - axis_unit * (delta_vec . axis_unit)|
radial_error_no_projection(delta_vec, axis_unit) == Norm3(delta_vec)

radial_error_mm(delta_vec, axis_unit) ==
    LET axial_mm == Dot3(delta_vec, axis_unit)
        axial_vec == Mul3(axis_unit, axial_mm)
        radial_vec == Sub3(delta_vec, axial_vec)
    IN  Norm3(radial_vec)

\* _trajectory_axis_angle_deg: None stands for the ValueError of _vunit
trajectory_axis_angle_deg(planned, final) ==
    LET planned_axis == Unit3(Sub3(planned.end, planned.start))
        final_axis == Unit3(Sub3(final.end, final.start))
    IN  IF planned_axis = None \/ final_axis = None THEN None
        ELSE LET d == Dot3(planned_axis, final_axis)
                 dot == IF d > 1 THEN 1 ELSE IF d < -1 THEN -1 ELSE d
             IN  Some(AcosDeg(dot))

\* Trajectory names in lexical order.
NamePool == <<"P1", "P2", "P3", "P4">>

NameRank(name) == CHOOSE k \in 1..Len(NamePool) : NamePool[k] = name

RECURSIVE SortedNames(_)
SortedNames(names) ==
    IF names = {} THEN <<>>
    ELSE LET first == CHOOSE a \in names : \A b \in names : NameRank(a) <= NameRank(b)
         IN  <<first>> \o SortedNames(names \ {first})

\* the keys of sorted_contacts_by_trajectory(contacts): the non-empty names
ContactTrajectories(contacts) ==
    {contacts[k].trajectory : k \in DOMAIN contacts} \ {""}

\* {int(c["index"]): c for c in by_traj[name] if int(c["index"]) > 0}.  The
\* list is sorted by index with a stable sort, so of several contacts with
\* one index the last one of the argument is kept.
IndexMap(contacts, name) ==
    LET mine == {k \in DOMAIN contacts :
                    contacts[k].trajectory = name /\ contacts[k].index > 0}
        idxs == {contacts[k].index : k \in mine}
    IN  [idx \in idxs |->
            contacts[CHOOSE k \in mine :
                /\ contacts[k].index = idx
                /\ \A j \in mine : contacts[j].index = idx => j <= k]]

RECURSIVE SortedInts(_)
SortedInts(ints) ==
    IF ints = {} THEN <<>>
    ELSE LET first == CHOOSE a \in ints : \A b \in ints : a <= b
         IN  <<first>> \o SortedInts(ints \ {first})

RECURSIVE SumSeq(_)
SumSeq(seq) == IF seq = <<>> THEN 0 ELSE seq[1] + SumSeq(Tail(seq))

MaxSeq(seq) == CHOOSE x \in {seq[k] : k \in DOMAIN seq} : \A k \in DOMAIN seq : seq[k] <= x

\* one pass of the loop body for traj_name: [kind, row] with kind "row",
\* "skip" (continue) or "raise"
QcForTrajectory(traj_name, planned_by_name, final_by_name, planned_contacts, final_contacts) ==
    IF traj_name \notin DOMAIN planned_by_name \/ traj_name \notin DOMAIN final_by_name
    THEN [kind |-> "skip", row |-> None]
    ELSE
    LET planned == planned_by_name[traj_name]
        final == final_by_name[traj_name]
        planned_axis == Unit3(Sub3(planned.end, planned.start))
    IN  IF planned_axis = None THEN [kind |-> "skip", row |-> None]
        ELSE
        LET entry_delta == Sub3(final.start, planned.start)
            target_delta == Sub3(final.end, planned.end)
            entry_rad == radial_error_mm(entry_delta, planned_axis)
            target_rad == radial_error_mm(target_delta, planned_axis)
            angle == trajectory_axis_angle_deg(planned, final)
        IN  IF angle = None THEN [kind |-> "raise", row |-> None]
            ELSE
            LET planned_index_map == IndexMap(planned_contacts, traj_name)
                final_index_map == IndexMap(final_contacts, traj_name)
                matched_idx == SortedInts(DOMAIN planned_index_map
                                          \cap DOMAIN final_index_map)
            IN  IF matched_idx = <<>> THEN [kind |-> "skip", row |-> None]
                ELSE
                LET radial_errors == [k \in DOMAIN matched_idx |->
                        radial_error_mm(
                            Sub3(final_index_map[matched_idx[k]].position_lps,
                                 planned_index_map[matched_idx[k]].position_lps),
                            planned_axis)]
                    n == Len(radial_errors)
                IN  [kind |-> "row",
                     row |-> [trajectory |-> traj_name,
                              entry_radial_mm |-> entry_rad,
                              target_radial_mm |-> target_rad,
                              mean_contact_radial_mm |-> SumSeq(radial_errors) \div n,
                              max_contact_radial_mm |-> MaxSeq(radial_errors),
                              rms_contact_radial_mm |->
                                  ISqrt(SumSeq([k \in DOMAIN radial_errors |->
                                      radial_errors[k] * radial_errors[k]]) \div n),
                              angle_deg |-> angle[1],
                              matched_contacts |-> n]]

\* `for traj_name in sorted(final_by_traj.keys())` from name k on: the rows,
\* or None when an iteration raises
RECURSIVE QcLoop(_, _, _, _, _, _, _)
QcLoop(names, k, planned_by_name, final_by_name, planned_contacts, final_contacts, rows) ==
    IF k > Len(names) THEN Some(rows)
    ELSE LET r == QcForTrajectory(names[k], planned_by_name, final_by_name,
                                  planned_contacts, final_contacts)
         IN  IF r.kind = "raise" THEN None
             ELSE QcLoop(names, k + 1, planned_by_name, final_by_name,
                         planned_contacts, final_contacts,
                         IF r.kind = "row" THEN Append(rows, r.row) ELSE rows)

compute_qc_metrics(planned_by_name, final_by_name, planned_contacts, final_contacts) ==
    QcLoop(SortedNames(ContactTrajectories(final_contacts)), 1, planned_by_name,
           final_by_name, planned_contacts, final_contacts, <<>>)

\* ---- the calls of compute_qc_metrics that are explored

\* the planned trajectory tried under each name
PlannedPool ==
    [P1 |-> [start |-> <<0, 0, 0>>, end |-> <<0, 0, 50>>],
     P2 |-> [start |-> <<10, 4, 4>>, end |-> <<-10, 4, 4>>],
     P3 |-> [start |-> <<1, 0, 2>>, end |-> <<1, 30, 2>>],
     P4 |-> [start |-> <<0, 0, 0>>, end |-> <<0, 0, -40>>]]

PlannedAxis(name) == Unit3(Sub3(PlannedPool[name].end, PlannedPool[name].start))

\* a displacement of a mm along the axis u and (l1, l2) mm across it
Displace(u, d) ==
    Add3(Mul3(u, d.a), Add3(Mul3(<<u[3], u[1], u[2]>>, d.l1),
                            Mul3(<<u[2], u[3], u[1]>>, d.l2)))

Axial(a) == [a |-> a, l1 |-> 0, l2 |-> 0]

Lateral(a, l1, l2) == [a |-> a, l1 |-> l1, l2 |-> l2]

TrajectoryVariants ==
    {"axial0", "axial3", "lateral", "rot90", "reversed", "no_final", "no_planned",
     "zero_final", "zero_planned"}

\* the [planned, final] pair of a name under a variant (None: not in the map)
TrajectoryPair(name, variant) ==
    LET p == PlannedPool[name]
        u == PlannedAxis(name)
        len == Norm3(Sub3(p.end, p.start))
        moved(d) == [start |-> Add3(p.start, Displace(u, d)),
                     end |-> Add3(p.end, Displace(u, d))]
    IN  CASE variant = "axial0" -> [planned |-> Some(p), final |-> Some(moved(Axial(0)))]
          [] variant = "axial3" -> [planned |-> Some(p), final |-> Some(moved(Axial(3)))]
          [] variant = "lateral" ->
                [planned |-> Some(p), final |-> Some(moved(Lateral(-2, 3, 4)))]
          [] variant = "rot90" ->
                [planned |-> Some(p),
                 final |-> Some([start |-> p.start,
                                 end |-> Add3(p.start, Displace(u, Lateral(0, len, 0)))])]
          [] variant = "reversed" ->
                [planned |-> Some(p), final |-> Some([start |-> p.end, end |-> p.start])]
          [] variant = "no_final" -> [planned |-> Some(p), final |-> None]
          [] variant = "no_planned" -> [planned |-> None, final |-> Some(p)]
          [] variant = "zero_final" ->
                [planned |-> Some(p), final |-> Some([start |-> p.end, end |-> p.end])]
          [] variant = "zero_planned" ->
                [planned |-> Some([start |-> p.start, end |-> p.start]), final |-> Some(p)]

\* the planned contacts of a name: index 0 at the target, 1 and 2 behind it
PlannedContactsOf(name) ==
    LET p == PlannedPool[name]
        u == PlannedAxis(name)
    IN  <<[trajectory |-> name, index |-> 0, position_lps |-> p.end],
          [trajectory |-> name, index |-> 1, position_lps |-> Sub3(p.end, Mul3(u, 2))],
          [trajectory |-> name, index |-> 2, position_lps |-> Sub3(p.end, Mul3(u, 6))]>>

\* the final contacts of a name: <<index, displacement>> from the planned
\* position of that index (index 3 has no planned contact: 10 mm behind)
ContactVariants ==
    {<< <<0, Axial(3)>>, <<1, Axial(3)>>, <<2, Axial(3)>> >>,
     << <<0, Axial(0)>>, <<1, Axial(0)>>, <<2, Axial(0)>> >>,
     << <<1, Axial(3)>>, <<2, Axial(-2)>> >>,
     << <<1, Lateral(0, 1, 0)>>, <<2, Lateral(3, 0, 7)>> >>,
     << <<1, Lateral(3, 4, 3)>> >>,
     << <<3, Axial(0)>> >>,
     << >>}

FinalContactsOf(name, cv) ==
    LET p == PlannedPool[name]
        u == PlannedAxis(name)
        base(idx) == IF idx = 0 THEN p.end
                     ELSE IF idx = 1 THEN Sub3(p.end, Mul3(u, 2))
                     ELSE IF idx = 2 THEN Sub3(p.end, Mul3(u, 6))
                     ELSE Sub3(p.end, Mul3(u, 10))
    IN  [k \in DOMAIN cv |->
            [trajectory |-> name, index |-> cv[k][1],
             position_lps |-> Add3(base(cv[k][1]), Displace(u, cv[k][2]))]]

RECURSIVE ConcatAll(_, _)
ConcatAll(f, names) ==
    IF names = <<>> THEN <<>> ELSE f[names[1]] \o ConcatAll(f, Tail(names))

QcNames(n) == {NamePool[k] : k \in 1..n}

\* the map name -> trajectory of the names where side ("planned"/"final") is present
QcMap(names, tv, side) ==
    LET present == {nm \in names : TrajectoryPair(nm, tv[nm])[side] # None}
    IN  [nm \in present |-> TrajectoryPair(nm, tv[nm])[side][1]]

QcCall ==
    \E n \in 0..MaxQcTrajectories :
      \E tv \in [QcNames(n) -> TrajectoryVariants], cv \in [QcNames(n) -> ContactVariants] :
        /\ q_planned = QcMap(QcNames(n), tv, "planned")
        /\ q_final = QcMap(QcNames(n), tv, "final")
        /\ q_planned_contacts =
              ConcatAll([nm \in QcNames(n) |-> PlannedContactsOf(nm)],
                        SortedNames(QcNames(n)))
        /\ q_final_contacts =
              ConcatAll([nm \in QcNames(n) |-> FinalContactsOf(nm, cv[nm])],
                        SortedNames(QcNames(n)))
        /\ qpc = "call"
        /\ q_rows = None

\* compute_qc_metrics(...) returns its rows or raises
ComputeQc ==
    /\ qpc = "call"
    /\ LET r == compute_qc_metrics(q_planned, q_final, q_planned_contacts,
                                   q_final_contacts)
       IN  /\ qpc' = IF r = None THEN "error" ELSE "done"
           /\ q_rows' = r
    /\ UNCHANGED <<q_planned, q_final, q_planned_contacts, q_final_contacts>>
    /\ UNCHANGED notQcVars

NextQc == ComputeQc

InitQc == QcCall /\ IdleFrames /\ IdleMatch /\ IdleContacts /\ IdleFit /\ IdleRansac /\ IdleSession /\ IdleWorkflow /\ IdleLibrary /\ IdleAssignFile /\ IdleParser /\ IdleUi

SpecQc == InitQc /\ [][NextQc]_vars

----------------------------------------------------------------------------
(* Claims about compute_qc_metrics *)

QcReturned == qpc = "done"

\* the contacts of a list that belong to a trajectory, as {index, position}
ContactSetOf(contacts, name) ==
    {<<contacts[k].index, contacts[k].position_lps>> :
        k \in {j \in DOMAIN contacts : contacts[j].trajectory = name}}

\* the final trajectory and the final contacts of name are the planned ones
\* moved by t mm along the planned entry->target axis
TranslatedBy(name, t) ==
    /\ name \in DOMAIN q_planned /\ name \in DOMAIN q_final
    /\ q_planned[name].end # q_planned[name].start
    /\ LET u == UnitOf(Sub3(q_planned[name].end, q_planned[name].start))
           move(p) == Add3(p, Mul3(u, t))
       IN  /\ q_final[name].start = move(q_planned[name].start)
           /\ q_final[name].end = move(q_planned[name].end)
           /\ ContactSetOf(q_final_contacts, name) =
                 {<<c[1], move(c[2])>> : c \in ContactSetOf(q_planned_contacts, name)}

RowIsZero(row) ==
    /\ row.entry_radial_mm = 0
    /\ row.target_radial_mm = 0
    /\ row.mean_contact_radial_mm = 0
    /\ row.max_contact_radial_mm = 0
    /\ row.rms_contact_radial_mm = 0
    /\ row.angle_deg = 0

\* C9: when the final trajectory and the final contacts of a trajectory are
\* the planned ones translated by any amount (zero included) along the
\* planned entry->target axis, the row reported for it has entry and target
\* radial error, mean, max and rms contact radial error and angle all 0.
C9_AxialTranslationIsFree ==
    QcReturned =>
        \A k \in DOMAIN q_rows[1] :
            (\E t \in -5..5 : TranslatedBy(q_rows[1][k].trajectory, t))
                => RowIsZero(q_rows[1][k])

\* a returned row of a trajectory translated by 3 mm along its axis, next to
\* a row whose radial errors are not zero
C9_Witness ==
    /\ QcReturned
    /\ \E k \in DOMAIN q_rows[1] :
          /\ TranslatedBy(q_rows[1][k].trajectory, 3)
          /\ RowIsZero(q_rows[1][k])
    /\ \E k \in DOMAIN q_rows[1] :
          /\ q_rows[1][k].entry_radial_mm > 0
          /\ q_rows[1][k].rms_contact_radial_mm > q_rows[1][k].mean_contact_radial_mm

----------------------------------------------------------------------------
(* contact_fit.py: fit_electrode_axis_and_tip.  Lengths are integers in    *)
(* ticks of 1/40 mm and angles in 1/10000 degree.  The planned             *)
(* trajectories tried lie along coordinate axes and the candidate clouds   *)
(* are lines of evenly spaced points, so that projections, slab means and  *)
(* the line fit are exact; numbers that need not be integers (the PCA      *)
(* center, depths, the fitted points) are kept as exact fractions.         *)

FitMm(x) == x * 40

\* `roi_pts.shape[0] < 24`
MinRoiPoints == 24

\* `slab_centroids.shape[0] < 8`
MinSlabCentroids == 8

\* step_mm=1.0, slab_half_thickness_mm=0.9, min_points_per_slab=8
step_mm == 40

slab_half_thickness_mm == 36

min_points_per_slab == 8

\* segment_margin = float(max_depth_shift_mm) + 5.0
SegmentMarginExtra == 200

NormSq3(v) == Dot3(v, v)

\* filter_points_in_segment_cylinder; seg_start # seg_end at its only call
filter_points_in_segment_slab(points, seg_start, seg_end, radius_mm, margin_mm) ==
    LET axis == Unit3(Sub3(seg_end, seg_start))
        length == Norm3(Sub3(seg_end, seg_start))
        keep(pt) ==
            LET t == Dot3(Sub3(pt, seg_start), axis)
            IN  t >= -margin_mm /\ t <= length + margin_mm
    IN  SelectSeq(points, keep)

filter_points_in_segment_cylinder(points, seg_start, seg_end, radius_mm, margin_mm) ==
    LET axis == Unit3(Sub3(seg_end, seg_start))
        length == Norm3(Sub3(seg_end, seg_start))
        keep(pt) ==
            LET rel == Sub3(pt, seg_start)
                t == Dot3(rel, axis)
                closest == Add3(seg_start, Mul3(axis, t))
            IN  /\ NormSq3(Sub3(pt, closest)) <= radius_mm * radius_mm
                /\ t >= -margin_mm
                /\ t <= length + margin_mm
    IN  SelectSeq(points, keep)

\* the sum of the vectors seq[lo..hi]
RECURSIVE SumVecRange(_, _, _)
SumVecRange(seq, lo, hi) ==
    IF lo > hi THEN <<0, 0, 0>>
    ELSE IF lo = hi THEN seq[lo]
    ELSE LET mid == (lo + hi) \div 2
             left == SumVecRange(seq, lo, mid)
             right == SumVecRange(seq, mid + 1, hi)
         IN  Add3(left, right)

SumVec(seq) == SumVecRange(seq, 1, Len(seq))

\* np.mean(pts, axis=0) of points whose mean is a point of the grid
Mean3(seq) ==
    LET total == SumVec(seq)
        n == Len(seq)
    IN  <<total[1] \div n, total[2] \div n, total[3] \div n>>

\* np.arange(t_min, t_max + step_mm * 0.5, step_mm): the number of centers
NumSlabCenters(t_min, t_max) ==
    IF 2 * t_max + step_mm <= 2 * t_min THEN 0
    ELSE (2 * (t_max - t_min) + step_mm + 2 * step_mm - 1) \div (2 * step_mm)

\* the loop `for tc in centers` of build_slab_centroids from center k on
RECURSIVE SlabLoop(_, _, _, _, _, _)
SlabLoop(points, origin, axis, t_min, k, count) ==
    IF k >= count THEN <<>>
    ELSE LET tc == t_min + k * step_mm
             in_slab(pt) == Abs(Dot3(Sub3(pt, origin), axis) - tc) <= slab_half_thickness_mm
             members == SelectSeq(points, in_slab)
             rest == SlabLoop(points, origin, axis, t_min, k + 1, count)
         IN  IF Len(members) < min_points_per_slab THEN rest
             ELSE <<Mean3(members)>> \o rest

\* build_slab_centroids: the centroids, in the order of the slab centers
build_slab_centroids(points, origin, axis, t_min, t_max) ==
    IF points = <<>> THEN <<>>
    ELSE SlabLoop(points, origin, axis, t_min, 0, NumSlabCenters(t_min, t_max))

\* ---- exact fractions [n / d], d > 0, in lowest terms

RECURSIVE Gcd(_, _)
Gcd(a, b) == IF b = 0 THEN a ELSE Gcd(b, a % b)

Frac(n, d) ==
    LET sn == IF d < 0 THEN -n ELSE n
        sd == Abs(d)
        g == Gcd(Abs(sn), sd)
    IN  [n |-> sn \div g, d |-> sd \div g]

FInt(k) == [n |-> k, d |-> 1]

FAdd(a, b) == Frac(a.n * b.d + b.n * a.d, a.d * b.d)

FSub(a, b) == Frac(a.n * b.d - b.n * a.d, a.d * b.d)

FMul(a, b) == Frac(a.n * b.n, a.d * b.d)

FDivInt(a, k) == Frac(a.n, a.d * k)

FLess(a, b) == a.n * b.d < b.n * a.d

FLeq(a, b) == a.n * b.d <= b.n * a.d

FMin(a, b) == IF FLeq(a, b) THEN a ELSE b

FMax(a, b) == IF FLeq(a, b) THEN b ELSE a

FAbs(a) == [n |-> Abs(a.n), d |-> a.d]

\* math.sqrt of a fraction: exact when n * d is a perfect square, else
\* rounded down to a multiple of 1/d
FSqrt(a) == Frac(ISqrt(a.n * a.d), a.d)

\* the least / greatest element of a non-empty set of fractions
FMinOf(set) == CHOOSE a \in set : \A b \in set : FLeq(a, b)

FMaxOf(set) == CHOOSE a \in set : \A b \in set : FLeq(b, a)

\* the sum of the fractions seq[lo..hi]
RECURSIVE FSumRange(_, _, _)
FSumRange(seq, lo, hi) ==
    IF lo > hi THEN FInt(0)
    ELSE IF lo = hi THEN seq[lo]
    ELSE LET mid == (lo + hi) \div 2
             left == FSumRange(seq, lo, mid)
             right == FSumRange(seq, mid + 1, hi)
         IN  FAdd(left, right)

\* np.mean of a non-empty sequence of fractions
FMean(seq) == FDivInt(FSumRange(seq, 1, Len(seq)), Len(seq))

\* ---- vectors of fractions with one denominator: v / d

FVec(v, d) ==
    LET sd == Abs(d)
        sv == IF d < 0 THEN Mul3(v, -1) ELSE v
        g == Gcd(Gcd(Gcd(Abs(sv[1]), Abs(sv[2])), Abs(sv[3])), sd)
    IN  [v |-> <<sv[1] \div g, sv[2] \div g, sv[3] \div g>>, d |-> sd \div g]

FVInt(pt) == [v |-> pt, d |-> 1]

FVAdd(a, b) == FVec(Add3(Mul3(a.v, b.d), Mul3(b.v, a.d)), a.d * b.d)

FVSub(a, b) == FVec(Sub3(Mul3(a.v, b.d), Mul3(b.v, a.d)), a.d * b.d)

FVScale(a, f) == FVec(Mul3(a.v, f.n), a.d * f.d)

FVNeg(a) == [v |-> Mul3(a.v, -1), d |-> a.d]

FVDot(a, b) == Frac(Dot3(a.v, b.v), a.d * b.d)

FVNormSq(a) == Frac(NormSq3(a.v), a.d * a.d)

\* ---- point_line_distance, fit_axis_pca, ransac_fit_line

Cross3(a, b) ==
    <<a[2] * b[3] - a[3] * b[2], a[3] * b[1] - a[1] * b[3], a[1] * b[2] - a[2] * b[1]>>

\* the shortest integer vector along a non-zero integer vector
Primitive(v) ==
    LET g == Gcd(Gcd(Abs(v[1]), Abs(v[2])), Abs(v[3]))
    IN  <<v[1] \div g, v[2] \div g, v[3] \div g>>

\* point_line_distance(pt, line_point, line_dir) squared, for integer points
\* and an integer direction: |rel x dir|^2 / |dir|^2
PointLineDistSq(pt, line_point, line_dir) ==
    Frac(NormSq3(Cross3(Sub3(pt, line_point), line_dir)), NormSq3(line_dir))

\* the same for a line through a point of fractions along a unit axis:
\* |rel|^2 - (rel . axis)^2
FPointLineDistSq(pt, center, axis) ==
    LET rel == FVSub(FVInt(pt), center)
        proj == FVDot(rel, axis)
    IN  FSub(FVNormSq(rel), FMul(proj, proj))

\* the sum of the integers seq[lo..hi]
RECURSIVE SumIntRange(_, _, _)
SumIntRange(seq, lo, hi) ==
    IF lo > hi THEN 0
    ELSE IF lo = hi THEN seq[lo]
    ELSE LET mid == (lo + hi) \div 2
             left == SumIntRange(seq, lo, mid)
             right == SumIntRange(seq, mid + 1, hi)
         IN  left + right

\* n^2 (n - 1) / n times the entry (a, b) of `centered.T @ centered`
Scatter(points, a, b) ==
    LET n == Len(points)
    IN  n * SumIntRange([k \in 1..n |-> points[k][a] * points[k][b]], 1, n)
        - SumIntRange([k \in 1..n |-> points[k][a]], 1, n)
          * SumIntRange([k \in 1..n |-> points[k][b]], 1, n)

UnitAxes == {<<1, 0, 0>>, <<0, 1, 0>>, <<0, 0, 1>>}

\* the unit eigenvectors of the largest eigenvalue of the covariance of
\* the points, as np.linalg.eigh may return them (either sign), when they
\* have rational components: for points on one line the direction of the
\* line, for a diagonal covariance the coordinate axes of its largest entry
PrincipalAxes(points) ==
    LET base == points[1]
        others == {k \in DOMAIN points : points[k] # base}
    IN  IF others = {}
        THEN {FVec(u, 1) : u \in UnitAxes} \cup {FVec(u, -1) : u \in UnitAxes}
        ELSE
        LET dir == Primitive(Sub3(points[CHOOSE k \in others : TRUE], base))
            q == ISqrt(NormSq3(dir))
        IN  IF \A k \in DOMAIN points : Cross3(Sub3(points[k], base), dir) = <<0, 0, 0>>
            THEN IF q * q = NormSq3(dir) THEN {FVec(dir, q), FVec(dir, -q)} ELSE {}
            ELSE IF Scatter(points, 1, 2) = 0 /\ Scatter(points, 1, 3) = 0
                    /\ Scatter(points, 2, 3) = 0
            THEN LET top == {a \in 1..3 : \A b \in 1..3 :
                                Scatter(points, b, b) <= Scatter(points, a, a)}
                     axis(a) == [c \in 1..3 |-> IF c = a THEN 1 ELSE 0]
                 IN  {FVec(axis(a), 1) : a \in top} \cup {FVec(axis(a), -1) : a \in top}
            ELSE {}

\* fit_axis_pca: the center of the points (the axis is one of PrincipalAxes)
PcaCenter(points) == FVec(SumVec(points), Len(points))

\* the points of seq at the indexes of mask, in order
RECURSIVE Masked(_, _, _)
Masked(seq, mask, k) ==
    IF k > Len(seq) THEN <<>>
    ELSE IF k \in mask THEN <<seq[k]>> \o Masked(seq, mask, k + 1)
    ELSE Masked(seq, mask, k + 1)

\* inlier_threshold_mm = min(1.2, max(0.45, float(roi_radius_mm) * 0.55))
ThresholdMax == 48

ThresholdMin == 18

InlierThreshold(roi_radius_mm) ==
    FMin(FInt(ThresholdMax), FMax(FInt(ThresholdMin), Frac(roi_radius_mm * 11, 20)))

\* min_inliers = max(6, int(0.45 * slab_centroids.shape[0]))
MinInliersFloor == 6

MinInliers(n) == IF (9 * n) \div 20 > MinInliersFloor THEN (9 * n) \div 20 ELSE MinInliersFloor

\* max_iterations=220
max_iterations == 220

\* one iteration of the loop of ransac_fit_line with the sample (i, j):
\* the new [mask, count, score], or best when the iteration changes nothing
RansacIteration(pts, thr, best, i, j) ==
    LET p0 == pts[i]
        d == Sub3(pts[j], p0)
    IN  IF d = <<0, 0, 0>> THEN best
        ELSE
        LET dir == Primitive(d)
            dist2 == [k \in DOMAIN pts |-> PointLineDistSq(pts[k], p0, dir)]
            mask == {k \in DOMAIN pts : FLeq(dist2[k], FMul(thr, thr))}
            count == Cardinality(mask)
            members == SortedInts(mask)
            score == FMean([m \in DOMAIN members |-> FSqrt(dist2[members[m]])])
        IN  IF count <= 0 THEN best
            ELSE IF \/ best = None
                    \/ count > best[1].count
                    \/ (count = best[1].count /\ FLess(score, best[1].score))
            THEN Some([mask |-> mask, count |-> count, score |-> score])
            ELSE best

\* math.degrees(math.acos(dot)) in 1/10000 degree, for the dot products
\* of the unit vectors that occur
AcosDeg10k(dot) ==
    CASE dot = FInt(1) -> 0
      [] dot = Frac(4, 5) -> 368699
      [] dot = Frac(3, 5) -> 531301
      [] dot = FInt(0) -> 900000
      [] dot = Frac(-3, 5) -> 1268699
      [] dot = Frac(-4, 5) -> 1431301
      [] dot = FInt(-1) -> 1800000

\* angle_deg(u, v) of unit vectors
angle_deg(u, v) == AcosDeg10k(FMin(FInt(1), FMax(FInt(-1), FVDot(u, v))))

\* `if float(np.dot(fit_axis, planned_deep_axis)) < 0.0: fit_axis = -fit_axis`
OrientAxisAsFitted(fit_axis, planned_deep_axis) == fit_axis

OrientAxis(fit_axis, planned_deep_axis) ==
    IF FLess(FVDot(fit_axis, planned_deep_axis), FInt(0)) THEN FVNeg(fit_axis) ELSE fit_axis

\* sorted(seq) for fractions
InsertFrac(sorted, x) ==
    LET pos == Cardinality({k \in DOMAIN sorted : FLeq(sorted[k], x)})
    IN  SubSeq(sorted, 1, pos) \o <<x>> \o SubSeq(sorted, pos + 1, Len(sorted))

RECURSIVE SortFracsTo(_, _)
SortFracsTo(seq, k) == IF k = 0 THEN <<>> ELSE InsertFrac(SortFracsTo(seq, k - 1), seq[k])

\* np.quantile(seq, 0.95): linear interpolation at position 0.95 * (n - 1)
Quantile95(seq) ==
    LET n == Len(seq)
        sorted == SortFracsTo(seq, n)
        lo == (19 * (n - 1)) \div 20
        g == (19 * (n - 1)) % 20
        hi == IF lo + 1 <= n - 1 THEN lo + 1 ELSE lo
    IN  FAdd(sorted[lo + 1], FMul(FSub(sorted[hi + 1], sorted[lo + 1]), Frac(g, 20)))

\* np.clip(x, lo, hi)
FClip(x, lo, hi) == FMin(FMax(x, lo), hi)

\* the deep anchor: [raw |-> deep_t_raw, clamped |-> deep_t]
DeepAnchorUnclamped(t_in, planned_target_t, max_depth_shift_mm) ==
    LET deep_min == FSub(planned_target_t, FInt(max_depth_shift_mm))
        deep_max == FAdd(planned_target_t, FInt(max_depth_shift_mm))
        near_target == {k \in DOMAIN t_in : FLeq(deep_min, t_in[k]) /\ FLeq(t_in[k], deep_max)}
        deep_t_raw == IF near_target # {} THEN FMaxOf({t_in[k] : k \in near_target})
                      ELSE Quantile95(t_in)
    IN  [raw |-> deep_t_raw, clamped |-> deep_t_raw]

DeepAnchor(t_in, planned_target_t, max_depth_shift_mm) ==
    LET deep_min == FSub(planned_target_t, FInt(max_depth_shift_mm))
        deep_max == FAdd(planned_target_t, FInt(max_depth_shift_mm))
        near_target == {k \in DOMAIN t_in : FLeq(deep_min, t_in[k]) /\ FLeq(t_in[k], deep_max)}
        deep_t_raw == IF near_target # {} THEN FMaxOf({t_in[k] : k \in near_target})
                      ELSE Quantile95(t_in)
    IN  [raw |-> deep_t_raw, clamped |-> FClip(deep_t_raw, deep_min, deep_max)]

\* _planned_tip_and_axis for a trajectory of non-zero length
planned_tip_and_axis(entry, target, tip_at) ==
    IF TipAtNorm(tip_at) = "entry"
    THEN [tip |-> entry, axis |-> Unit3(Sub3(target, entry))]
    ELSE [tip |-> target, axis |-> Unit3(Sub3(entry, target))]

\* np.mean(np.min(d3, axis=1)): the mean over the predicted centers of the
\* distance to the nearest point of the ROI
Residual3dFarthest(pred_centers, roi_pts) ==
    FMean([k \in DOMAIN pred_centers |->
        FSqrt(FMaxOf({FVNormSq(FVSub(pred_centers[k], FVInt(roi_pts[m]))) :
                        m \in DOMAIN roi_pts}))])

Residual3d(pred_centers, roi_pts) ==
    FMean([k \in DOMAIN pred_centers |->
        FSqrt(FMinOf({FVNormSq(FVSub(pred_centers[k], FVInt(roi_pts[m]))) :
                        m \in DOMAIN roi_pts}))])

\* np.mean(nearest_1d): the same along the fitted deep axis
Residual1d(pred_centers, roi_pts, fitted_target, fit_deep_axis) ==
    LET cand_t == {FVDot(FVSub(FVInt(roi_pts[m]), fitted_target), fit_deep_axis) :
                      m \in DOMAIN roi_pts}
        pred_t == [k \in DOMAIN pred_centers |->
                      FVDot(FVSub(pred_centers[k], fitted_target), fit_deep_axis)]
    IN  FMean([k \in DOMAIN pred_centers |->
            FMinOf({FAbs(FSub(c, pred_t[k])) : c \in cand_t})])

\* ---- the calls of fit_electrode_axis_and_tip that are explored

\* two directions across an axis-aligned unit vector u
Across1(u) == <<u[3], u[1], u[2]>>

Across2(u) == <<u[2], u[3], u[1]>>

\* count points from (t0, l0) in steps of (dt, dl), t along u from origin
\* and l across it
LineCloud(origin, u, piece) ==
    [j \in 1..piece.count |->
        Add3(origin, Add3(Mul3(u, piece.t0 + (j - 1) * piece.dt),
                          Mul3(Across1(u), piece.l0 + (j - 1) * piece.dl)))]

Piece(t0, l0, dt, dl, count) == [t0 |-> t0, l0 |-> l0, dt |-> dt, dl |-> dl, count |-> count]

CloudShapes ==
    [empty |-> Piece(0, 0, 0, 0, 0),
     on_axis |-> Piece(0, 0, 4, 0, 81),
     on_axis_short |-> Piece(100, 0, 4, 0, 51),
     on_axis_deep |-> Piece(200, 0, 4, 0, 91),
     on_axis_shallow |-> Piece(-100, 0, 4, 0, 81),
     offset |-> Piece(0, 40, 4, 0, 81),
     tilted |-> Piece(-120, -210, 8, 6, 71),
     perpendicular |-> Piece(180, -100, 0, 4, 51),
     sparse |-> Piece(0, 0, 20, 0, 17),
     thin |-> Piece(0, 0, 10, 0, 33),
     far |-> Piece(0, 2000, 4, 0, 81)]

\* the lateral position of the cluster of candidate points at each
\* millimetre of depth in the zigzag cloud, and the eight points of a
\* cluster as (depth, second lateral) offsets from the cluster's center
ZigzagLanes == <<80, -80, 80, -80, 0, -80, 80, -80, 80>>

ClusterOffsets ==
    <<<<-2, -1>>, <<-1, 1>>, <<1, -1>>, <<2, 1>>, <<-2, 1>>, <<-1, -1>>, <<1, 1>>, <<2, -1>>>>

ClusterCloud(origin, u, lanes) ==
    [j \in 1..(8 * Len(lanes)) |->
        LET k == ((j - 1) \div 8) + 1
            o == ClusterOffsets[((j - 1) % 8) + 1]
        IN  Add3(origin, Add3(Mul3(u, FitMm(k - 1) + o[1]),
                              Add3(Mul3(Across1(u), lanes[k]), Mul3(Across2(u), o[2]))))]

CloudNames == DOMAIN CloudShapes \cup {"zigzag"}

CandidateCloud(origin, u, shape) ==
    IF shape = "zigzag" THEN ClusterCloud(origin, u, ZigzagLanes)
    ELSE LineCloud(origin, u, CloudShapes[shape])

PlannedChoices ==
    {[entry |-> <<0, 0, 0>>, target |-> <<0, 0, 320>>],
     [entry |-> <<0, 40, 0>>, target |-> <<-360, 40, 0>>],
     [entry |-> <<40, 40, 40>>, target |-> <<40, 40, 40>>],
     [entry |-> <<0, 0, 0>>, target |-> <<0, 0, 390>>]}

\* the deep axis of a planned trajectory (any axis for a zero-length one)
BasisAxis(planned) ==
    IF planned.entry = planned.target THEN <<0, 0, 1>>
    ELSE Unit3(Sub3(planned.target, planned.entry))

FitCall ==
    \E planned \in PlannedChoices, shape \in CloudNames,
       offsets \in {<<>>, <<80, 160>>, <<40, 600>>}, tip_at \in {"", "entry"},
       roi_radius_mm \in {FitMm(3), FitMm(5)}, max_angle_deg \in {120000, 400000},
       max_depth_shift_mm \in {FitMm(2), FitMm(5)} :
        /\ shape = "zigzag" => (tip_at = "" /\ roi_radius_mm = FitMm(3))
        /\ planned.target = <<0, 0, 390>> => shape = "on_axis_deep"
        /\ e_points = CandidateCloud(planned.entry, BasisAxis(planned), shape)
        /\ e_entry = planned.entry
        /\ e_target = planned.target
        /\ e_offsets = offsets
        /\ e_tip_at = tip_at
        /\ e_roi_radius = roi_radius_mm
        /\ e_max_angle = max_angle_deg
        /\ e_max_depth_shift = max_depth_shift_mm
        /\ epc = "call"
        /\ e_roi_pts = <<>> /\ e_slab_centroids = <<>> /\ e_iter = 0
        /\ e_best = None /\ e_fit = None /\ e_result = None

\* `return {...}` of fit_electrode_axis_and_tip
FitReturn(result) ==
    /\ epc' = "done"
    /\ e_result' = Some(result)

\* fit_electrode_axis_and_tip up to the call of ransac_fit_line
PrepareFit ==
    /\ epc = "call"
    /\ IF e_points = <<>>
       THEN /\ FitReturn([success |-> FALSE, reason |-> "No candidate points"])
            /\ UNCHANGED <<e_roi_pts, e_slab_centroids>>
       ELSE IF Norm3(Sub3(e_entry, e_target)) = 0
       THEN /\ FitReturn([success |-> FALSE, reason |-> "Zero-length planned trajectory"])
            /\ UNCHANGED <<e_roi_pts, e_slab_centroids>>
       ELSE
       LET planned_length == Norm3(Sub3(e_entry, e_target))
           planned_deep_axis == Unit3(Sub3(e_target, e_entry))
           segment_margin == e_max_depth_shift + SegmentMarginExtra
           roi_pts == filter_points_in_segment_cylinder(e_points, e_entry, e_target,
                                                        e_roi_radius, segment_margin)
           slab_centroids == build_slab_centroids(roi_pts, e_entry, planned_deep_axis,
                                                  -e_max_depth_shift,
                                                  planned_length + e_max_depth_shift)
       IN  /\ e_roi_pts' = roi_pts
           /\ IF Len(roi_pts) < MinRoiPoints
              THEN /\ FitReturn([success |-> FALSE, reason |-> "Too few CT points in ROI",
                                 points_in_roi |-> Len(roi_pts)])
                   /\ UNCHANGED e_slab_centroids
              ELSE /\ e_slab_centroids' = slab_centroids
                   /\ IF Len(slab_centroids) < MinSlabCentroids
                      THEN FitReturn([success |-> FALSE,
                                      reason |-> "Too few slab centroids for robust line fit",
                                      points_in_roi |-> Len(roi_pts),
                                      slab_centroids |-> Len(slab_centroids)])
                      ELSE /\ epc' = "ransac"
                           /\ UNCHANGED e_result
    /\ UNCHANGED <<fitInputs, e_iter, e_best, e_fit>>

FitPrepare == PrepareFit /\ UNCHANGED notFitVars

\* one more iteration of `for _ in range(int(max_iterations))`, with the
\* sample rng.choice(n, size=2, replace=False) = (i, j)
SampleRansac(i, j) ==
    /\ epc = "ransac"
    /\ e_iter < MaxDraws
    /\ e_iter < max_iterations
    /\ i # j
    /\ e_best' = RansacIteration(e_slab_centroids, InlierThreshold(e_roi_radius),
                                 e_best, i, j)
    /\ e_iter' = e_iter + 1
    /\ UNCHANGED <<fitInputs, epc, e_roi_pts, e_slab_centroids, e_fit, e_result>>

RansacDraw ==
    /\ \E i, j \in DOMAIN e_slab_centroids : SampleRansac(i, j)
    /\ UNCHANGED notFitVars

\* fit_electrode_axis_and_tip from the return of ransac_fit_line with
\* (center, fit_axis, inlier_mask, ransac_rms) on
FitAfterRansac(center, fit_axis, inlier_mask, ransac_rms) ==
    LET planned_length == Norm3(Sub3(e_entry, e_target))
        planned == planned_tip_and_axis(e_entry, e_target, e_tip_at)
        planned_deep_axis == FVInt(Unit3(Sub3(e_target, e_entry)))
        fit_deep_axis == OrientAxis(fit_axis, planned_deep_axis)
        fit_super_axis == FVNeg(fit_deep_axis)
        ang == angle_deg(planned_deep_axis, fit_deep_axis)
        masked == Masked(e_slab_centroids, inlier_mask, 1)
        inlier_centroids == IF Len(masked) < 3 THEN e_slab_centroids ELSE masked
        t_in == [k \in DOMAIN inlier_centroids |->
                    FVDot(FVSub(FVInt(inlier_centroids[k]), center), fit_deep_axis)]
        planned_target_t == FVDot(FVSub(FVInt(e_target), center), fit_deep_axis)
        anchor == DeepAnchor(t_in, planned_target_t, e_max_depth_shift)
        deep_t == anchor.clamped
        fitted_target == FVAdd(center, FVScale(fit_deep_axis, deep_t))
        fitted_entry == FVSub(fitted_target, FVScale(fit_deep_axis, FInt(planned_length)))
        entry_tip == TipAtNorm(e_tip_at) = "entry"
        fitted_tip == IF entry_tip THEN fitted_entry ELSE fitted_target
        offsets_axis == IF entry_tip THEN fit_deep_axis ELSE fit_super_axis
        pred_centers == [k \in DOMAIN e_offsets |->
                            FVAdd(fitted_tip, FVScale(offsets_axis, FInt(e_offsets[k])))]
        delta_target == FVSub(fitted_target, FVInt(e_target))
        target_shift_mm == FVDot(delta_target, fit_deep_axis)
        lateral_vec == FVSub(delta_target, FVScale(fit_deep_axis, target_shift_mm))
    IN  /\ e_fit' = Some([center |-> center, fit_axis |-> fit_axis,
                          deep_axis |-> fit_deep_axis, angle_deg |-> ang,
                          inlier_centroids |-> inlier_centroids])
        /\ IF ang > e_max_angle
           THEN FitReturn([success |-> FALSE, reason |-> "Angle deviation exceeds max",
                           angle_deg |-> ang, points_in_roi |-> Len(e_roi_pts),
                           slab_centroids |-> Len(e_slab_centroids)])
           ELSE IF e_offsets = <<>>
           THEN FitReturn([success |-> FALSE, reason |-> "No model offsets provided"])
           ELSE FitReturn(
                  [success |-> TRUE,
                   entry_lps |-> fitted_entry,
                   target_lps |-> fitted_target,
                   tip_shift_mm |-> target_shift_mm,
                   lateral_shift_mm |-> FSqrt(FVNormSq(lateral_vec)),
                   angle_deg |-> ang,
                   residual_mm |-> Residual3d(pred_centers, e_roi_pts),
                   one_d_residual_mm |->
                       Residual1d(pred_centers, e_roi_pts, fitted_target, fit_deep_axis),
                   points_in_roi |-> Len(e_roi_pts),
                   slab_centroids |-> Len(e_slab_centroids),
                   slab_inliers |-> Len(inlier_centroids),
                   ransac_rms_mm |-> ransac_rms,
                   axis_lps |-> fit_super_axis,
                   deep_axis_lps |-> fit_deep_axis,
                   center_lps |-> center,
                   deep_t_raw_mm |-> anchor.raw,
                   deep_t_clamped_mm |-> deep_t,
                   planned_target_t_mm |-> planned_target_t,
                   planned_tip_lps |-> planned.tip,
                   planned_tip_axis_lps |-> planned.axis,
                   slab_t_min_mm |-> -e_max_depth_shift,
                   slab_t_max_mm |-> planned_length + e_max_depth_shift,
                   slab_t_used_count |-> Len(e_slab_centroids)])

\* the mask ransac_fit_line returns: all points in the fallback, else the
\* best consensus
RansacMask ==
    IF e_best = None \/ e_best[1].count < MinInliers(Len(e_slab_centroids))
    THEN DOMAIN e_slab_centroids
    ELSE e_best[1].mask

\* the end of ransac_fit_line (fallback or PCA refinement of the inliers)
\* and the rest of fit_electrode_axis_and_tip.  An iteration whose sample
\* repeats an earlier one changes nothing, so the state after any number
\* 1..max_iterations of iterations is also the state after all of them.
FinishFit ==
    /\ epc = "ransac"
    /\ e_iter \in 1..max_iterations
    /\ LET pts == e_slab_centroids
           fallback == e_best = None \/ e_best[1].count < MinInliers(Len(pts))
           inlier_mask == RansacMask
           fitted == Masked(pts, inlier_mask, 1)
       IN  IF Len(fitted) < 3
           THEN /\ epc' = "error"
                /\ UNCHANGED <<e_fit, e_result>>
           ELSE \E fit_axis \in PrincipalAxes(fitted) :
                  LET center == PcaCenter(fitted)
                      dist2 == [k \in DOMAIN fitted |->
                                   FPointLineDistSq(fitted[k], center, fit_axis)]
                      ransac_rms == IF fallback THEN FInt(0) ELSE FSqrt(FMean(dist2))
                  IN  FitAfterRansac(center, fit_axis, inlier_mask, ransac_rms)
    /\ UNCHANGED <<fitInputs, e_roi_pts, e_slab_centroids, e_iter, e_best>>

FitFinish == FinishFit /\ UNCHANGED notFitVars

NextFit == FitPrepare \/ RansacDraw \/ FitFinish

InitFit == FitCall /\ IdleFrames /\ IdleMatch /\ IdleContacts /\ IdleQc /\ IdleRansac /\ IdleSession /\ IdleWorkflow /\ IdleLibrary /\ IdleAssignFile /\ IdleParser /\ IdleUi

SpecFit == InitFit /\ [][NextFit]_vars

----------------------------------------------------------------------------
(* Claims about fit_electrode_axis_and_tip *)

FitDone == epc = "done"

FitSuccess == FitDone /\ e_result[1].success

FitFailure(reason) ==
    FitDone /\ ~e_result[1].success /\ e_result[1].reason = reason

PlannedNonZero == e_entry # e_target

\* the planned entry->target unit vector, the depth of a point along it
\* from the entry and its squared distance from the planned line
PlannedUnit == UnitOf(Sub3(e_target, e_entry))

PlannedLength == Norm3(Sub3(e_target, e_entry))

DepthOf(pt) == Dot3(Sub3(pt, e_entry), PlannedUnit)

RadialSqOf(pt) == NormSq3(Sub3(pt, e_entry)) - DepthOf(pt) * DepthOf(pt)

\* the candidate points within roi_radius_mm of the planned segment
\* lengthened by max_depth_shift_mm + 5 mm at both ends
RoiIndexes ==
    {k \in DOMAIN e_points :
        /\ RadialSqOf(e_points[k]) <= e_roi_radius * e_roi_radius
        /\ DepthOf(e_points[k]) >= -(e_max_depth_shift + FitMm(5))
        /\ DepthOf(e_points[k]) <= PlannedLength + e_max_depth_shift + FitMm(5)}

\* the slab centers, 1 mm apart from -max_depth_shift_mm to less than
\* length + max_depth_shift_mm + 0.5 mm, whose slab of +/- 0.9 mm holds 8
\* ROI points
PopulatedSlabs ==
    LET depth == [k \in RoiIndexes |-> DepthOf(e_points[k])]
        slabs == (PlannedLength + 2 * e_max_depth_shift + 19) \div FitMm(1)
    IN  {c \in {FitMm(n) - e_max_depth_shift : n \in 0..slabs} :
            Cardinality({k \in DOMAIN depth : Abs(depth[k] - c) <= 36}) >= 8}

\* C5: for a planned trajectory of non-zero length the fit never raises;
\* it answers with the Failure of the first check that fails, in the order
\* empty cloud, fewer than 24 ROI points, fewer than 8 slab centroids,
\* fitted angle above max_angle_deg, no contact offsets, and with Success
\* exactly when every check passes.
C5_ChecksInOrder ==
    /\ epc # "error"
    /\ (FitDone /\ PlannedNonZero) =>
          IF e_points = <<>> THEN FitFailure("No candidate points")
          ELSE IF Cardinality(RoiIndexes) < 24
          THEN FitFailure("Too few CT points in ROI")
          ELSE IF Cardinality(PopulatedSlabs) < 8
          THEN FitFailure("Too few slab centroids for robust line fit")
          ELSE IF e_fit # None /\ e_fit[1].angle_deg > e_max_angle
          THEN FitFailure("Angle deviation exceeds max")
          ELSE IF e_offsets = <<>> THEN FitFailure("No model offsets provided")
          ELSE FitSuccess

\* a call that passes the first three checks and fails the angle gate
\* although it has no contact offsets either
C5_Witness ==
    /\ FitFailure("Angle deviation exceeds max")
    /\ e_offsets = <<>>
    /\ Cardinality(RoiIndexes) >= 24

\* cos(max_angle_deg) for the values of max_angle_deg tried
CosOfMaxAngle ==
    CASE e_max_angle = 120000 -> Frac(978148, 1000000)
      [] e_max_angle = 400000 -> Frac(766044, 1000000)

\* C6: the fitted axis is flipped exactly when its dot product with the
\* planned deep axis is negative; an angle above max_angle_deg between the
\* planned and the oriented axis gives Failure; so every Success has
\* angle_deg <= max_angle_deg (the cosine of the two axes is at least
\* cos(max_angle_deg)) and a deep axis with a non-negative dot product.
C6_AngleGate ==
    /\ e_fit # None =>
          LET f == e_fit[1]
              raw_dot == FVDot(f.fit_axis, FVInt(PlannedUnit))
          IN  /\ FLess(raw_dot, FInt(0)) => f.deep_axis = FVNeg(f.fit_axis)
              /\ FLeq(FInt(0), raw_dot) => f.deep_axis = f.fit_axis
              /\ f.angle_deg > e_max_angle => FitFailure("Angle deviation exceeds max")
    /\ FitSuccess =>
          LET r == e_result[1]
              dot == FVDot(r.deep_axis_lps, FVInt(PlannedUnit))
          IN  /\ r.angle_deg <= e_max_angle
              /\ FLeq(FInt(0), dot)
              /\ FLeq(CosOfMaxAngle, dot)
              /\ r.deep_axis_lps = e_fit[1].deep_axis
              /\ r.angle_deg = e_fit[1].angle_deg

\* a Success whose axis came out of the line fit pointing backwards and
\* tilted against the plan
C6_Witness ==
    /\ FitSuccess
    /\ e_fit[1].deep_axis # e_fit[1].fit_axis
    /\ e_result[1].angle_deg > 0

\* the depth of an inlier centroid and of the planned target along the
\* fitted deep axis, from the fitted center
FitDepth(pt) ==
    FVDot(FVSub(FVInt(pt), e_result[1].center_lps), e_result[1].deep_axis_lps)

InlierDepths ==
    [k \in DOMAIN e_fit[1].inlier_centroids |-> FitDepth(e_fit[1].inlier_centroids[k])]

DepthWindow ==
    {k \in DOMAIN InlierDepths :
        FLeq(FAbs(FSub(InlierDepths[k], FitDepth(e_target))), FInt(e_max_depth_shift))}

\* C7: the anchor depth of a Success is the deepest inlier depth within
\* max_depth_shift_mm of the planned target depth when there is one, else
\* the 95th percentile of the inlier depths clamped into that window; the
\* fitted target lies at that depth on the fitted line and
\* |tip_shift_mm| <= max_depth_shift_mm.
C7_DepthAnchor ==
    FitSuccess =>
        LET r == e_result[1]
            lo == FSub(FitDepth(e_target), FInt(e_max_depth_shift))
            hi == FAdd(FitDepth(e_target), FInt(e_max_depth_shift))
            q == Quantile95(InlierDepths)
        IN  /\ r.deep_t_clamped_mm =
                  IF DepthWindow # {} THEN FMaxOf({InlierDepths[k] : k \in DepthWindow})
                  ELSE IF FLess(q, lo) THEN lo
                  ELSE IF FLess(hi, q) THEN hi
                  ELSE q
            /\ r.target_lps = FVAdd(r.center_lps, FVScale(r.deep_axis_lps, r.deep_t_clamped_mm))
            /\ r.tip_shift_mm = FVDot(FVSub(r.target_lps, FVInt(e_target)), r.deep_axis_lps)
            /\ FLeq(FAbs(r.tip_shift_mm), FInt(e_max_depth_shift))

\* a Success with no inlier in the window: the percentile is clamped and
\* the fitted target is max_depth_shift_mm shallower than planned
C7_Witness ==
    /\ FitSuccess
    /\ DepthWindow = {}
    /\ e_result[1].deep_t_raw_mm # e_result[1].deep_t_clamped_mm
    /\ e_result[1].tip_shift_mm = FInt(-e_max_depth_shift)

\* every candidate point lies on the planned entry->target line
OnAxisCloud == e_points # <<>> /\ \A k \in DOMAIN e_points : RadialSqOf(e_points[k]) = 0

DenseCloud == Cardinality(RoiIndexes) >= 24 /\ Cardinality(PopulatedSlabs) >= 8

\* the candidate points lie on one line across the planned axis
PerpendicularCloud ==
    /\ Len(e_points) >= 2
    /\ \A k \in DOMAIN e_points : DepthOf(e_points[k]) = DepthOf(e_points[1])
    /\ \E u \in UnitAxes :
          \A k \in DOMAIN e_points :
              Cross3(Sub3(e_points[k], e_points[1]), u) = <<0, 0, 0>>

\* the largest gap between neighbouring points of an on-axis cloud
PointSpacing ==
    LET depths == {DepthOf(e_points[k]) : k \in DOMAIN e_points}
        gap(d) == (CHOOSE n \in depths : n > d /\ \A m \in depths : m > d => n <= m) - d
        last == CHOOSE d \in depths : \A m \in depths : m <= d
    IN  CHOOSE g \in {gap(d) : d \in depths \ {last}} :
            \A d \in depths \ {last} : gap(d) <= g

\* the depths of the predicted contact centers of a Success
PredictedDepths ==
    LET r == e_result[1]
        at_entry == TipAtNorm(e_tip_at) = "entry"
        tip == IF at_entry THEN r.entry_lps ELSE r.target_lps
        dir == IF at_entry THEN r.deep_axis_lps ELSE FVNeg(r.deep_axis_lps)
    IN  {FVDot(FVSub(FVAdd(tip, FVScale(dir, FInt(e_offsets[k]))), FVInt(e_entry)),
               FVInt(PlannedUnit)) : k \in DOMAIN e_offsets}

ContactsWithinCloud ==
    \A d \in PredictedDepths :
        /\ \E k \in DOMAIN e_points : FLeq(FInt(DepthOf(e_points[k])), d)
        /\ \E k \in DOMAIN e_points : FLeq(d, FInt(DepthOf(e_points[k])))

OnAxisRecovered ==
    /\ FitSuccess
    /\ e_result[1].angle_deg = 0
    /\ e_result[1].lateral_shift_mm = FInt(0)

----------------------------------------------------------------------------
(* Claims about degenerate and low-consensus fits *)

\* C11: a planned trajectory of zero length (entry equal to target) makes
\* fit_electrode_axis_and_tip raise: a call with candidate points and such
\* a trajectory never finishes with a returned value, Failure or Success.
C11_ZeroLengthRaises ==
    (e_entry = e_target /\ e_points # <<>> /\ epc \in {"done", "error"}) => epc = "error"


\* the line fit of a finished ransac_fit_line was the fallback: no sampled
\* pair reached min_inliers
FitFellBack ==
    /\ e_fit # None
    /\ e_best = None \/ e_best[1].count < MinInliers(Len(e_slab_centroids))

\* the number of slab centroids within the inlier threshold of the line
\* through centroids i and j
PairConsensus(i, j) ==
    LET dir == Primitive(Sub3(e_slab_centroids[j], e_slab_centroids[i]))
    IN  Cardinality({k \in DOMAIN e_slab_centroids :
            FLeq(PointLineDistSq(e_slab_centroids[k], e_slab_centroids[i], dir),
                 FMul(InlierThreshold(e_roi_radius), InlierThreshold(e_roi_radius)))})

\* no pair of distinct slab centroids, whatever the sampling, reaches
\* min_inliers
NoConsensusPair ==
    \A i, j \in DOMAIN e_slab_centroids :
        e_slab_centroids[i] # e_slab_centroids[j] =>
            PairConsensus(i, j) < MinInliers(Len(e_slab_centroids))

\* C12: a fit in which no RANSAC iteration reaches the minimum inlier
\* count ends as a Failure, never as a Success.
C12_LowConsensusFails ==
    (FitDone /\ FitFellBack /\ NoConsensusPair) => ~e_result[1].success

----------------------------------------------------------------------------
(* ransac_fit_line called on its own *)

\* the point sets tried: one point, the same point twice, two points,
\* three and six points on a line, a line of six between two points off it,
\* and the nine zigzag centroids
RansacPointSets ==
    {<< <<0, 0, 0>> >>,
     << <<0, 0, 0>>, <<0, 0, 0>> >>,
     << <<0, 0, 0>>, <<0, 0, 40>> >>,
     << <<0, 0, 0>>, <<0, 0, 40>>, <<0, 0, 80>> >>,
     [k \in 1..6 |-> <<0, 0, FitMm(k - 1)>>],
     [k \in 1..8 |-> IF k = 1 THEN <<200, 0, 0>> ELSE IF k = 8 THEN <<200, 0, FitMm(7)>>
                     ELSE <<0, 0, FitMm(k - 1)>>],
     [k \in 1..Len(ZigzagLanes) |-> <<ZigzagLanes[k], 0, FitMm(k - 1)>>]}

RansacCall ==
    \E points \in RansacPointSets, min_inliers \in {2, 3, 6},
       inlier_threshold_mm \in {FInt(18), FInt(24)} :
        /\ Len(points) = Len(ZigzagLanes) => min_inliers = 6
        /\ r_points = points
        /\ r_min_inliers = min_inliers
        /\ r_thr = inlier_threshold_mm
        /\ rpc = "call"
        /\ r_iter = 0 /\ r_best = None /\ r_result = None

\* ransac_fit_line up to the loop: `if n < 2: raise ValueError`
RansacEnter ==
    /\ rpc = "call"
    /\ rpc' = IF Len(r_points) < 2 THEN "error" ELSE "loop"
    /\ UNCHANGED <<r_points, r_min_inliers, r_thr, r_iter, r_best, r_result>>
    /\ UNCHANGED notRansacVars

\* one iteration of the loop with the sample (i, j)
RansacLoop ==
    /\ rpc = "loop"
    /\ r_iter < MaxDraws
    /\ r_iter < max_iterations
    /\ \E i, j \in DOMAIN r_points :
          /\ i # j
          /\ r_best' = RansacIteration(r_points, r_thr, r_best, i, j)
    /\ r_iter' = r_iter + 1
    /\ UNCHANGED <<r_points, r_min_inliers, r_thr, rpc, r_result>>
    /\ UNCHANGED notRansacVars

\* ransac_fit_line after the loop: the fallback or the refinement on the
\* inliers; fit_axis_pca raises on fewer than 3 points
RansacReturn ==
    /\ rpc = "loop"
    /\ r_iter \in 1..max_iterations
    /\ LET fallback == r_best = None \/ r_best[1].count < r_min_inliers
           inlier_mask == IF fallback THEN DOMAIN r_points ELSE r_best[1].mask
           fitted == Masked(r_points, inlier_mask, 1)
       IN  IF Len(fitted) < 3
           THEN /\ rpc' = "error"
                /\ UNCHANGED r_result
           ELSE \E fit_axis \in PrincipalAxes(fitted) :
                  LET center == PcaCenter(fitted)
                      dist2 == [k \in DOMAIN fitted |->
                                   FPointLineDistSq(fitted[k], center, fit_axis)]
                  IN  /\ rpc' = "done"
                      /\ r_result' = Some([center |-> center, axis |-> fit_axis,
                                           inlier_mask |-> inlier_mask,
                                           rms |-> IF fallback THEN FInt(0)
                                                   ELSE FSqrt(FMean(dist2))])
    /\ UNCHANGED <<r_points, r_min_inliers, r_thr, r_iter, r_best>>
    /\ UNCHANGED notRansacVars

NextRansac == RansacEnter \/ RansacLoop \/ RansacReturn

InitRansac == RansacCall /\ IdleFrames /\ IdleMatch /\ IdleContacts /\ IdleQc /\ IdleFit /\ IdleSession /\ IdleWorkflow /\ IdleLibrary /\ IdleAssignFile /\ IdleParser /\ IdleUi

SpecRansac == InitRansac /\ [][NextRansac]_vars

(* Claims about ransac_fit_line *)

\* C13: for every input of at least 2 points and every min_inliers,
\* ransac_fit_line returns a line and does not raise.
C13_NeverFailsOutright ==
    Len(r_points) >= 2 => rpc # "error"

\* a line was returned although every sampled pair fell short of
\* min_inliers, and its rms is that of a consensus fit of points on a line
RansacFellBack ==
    /\ rpc = "done"
    /\ r_best = None \/ r_best[1].count < r_min_inliers

----------------------------------------------------------------------------
(* RosaHelperWidget._fit_trajectories: fits run one after another *)

\* rng_seed=0, the seed fit_electrode_axis_and_tip gives ransac_fit_line
rng_seed == 0

\* np.random.default_rng(int(rng_seed)): ransac_fit_line draws from a
\* generator of its own, which starts at its first sample whatever
\* generator position the fit before left behind
shared_rng(left_behind) == left_behind

default_rng(left_behind) == 0

\* the samples the generator may give for n points (a part of all pairs:
\* the first two points, two in the middle, the last two)
SamplePool(n) == {<<1, 2>>, <<n \div 2, (n \div 2) + 1>>, <<n - 1, n>>}

\* f with f[key] = value added
Extend(f, key, value) ==
    [k \in DOMAIN f \cup {key} |-> IF k = key THEN value ELSE f[k]]

\* the widget's state during the session: the trajectories, the shared
\* candidate points self.autoFitCandidatesLPS (a cloud around A whose
\* centroids lie on the axis in the middle and off it at both ends, an
\* on-axis cloud around B), the assigned model and the spin box values
SessionTrajectories ==
    [A |-> [start |-> <<0, 0, 0>>, end |-> <<0, 0, 320>>],
     B |-> [start |-> <<4000, 0, 0>>, end |-> <<4000, 0, 320>>]]

SessionLanes == <<80, -80, 0, 0, 0, 0, 0, 0, -80, 80>>

SessionCandidates ==
    ClusterCloud(SessionTrajectories.A.start, <<0, 0, 1>>, SessionLanes)
    \o LineCloud(SessionTrajectories.B.start, <<0, 0, 1>>, Piece(0, 0, 4, 0, 91))

\* the seeds a caller may want
SeedPool == {0, 1}

SessionNameLists == {<<"A", "B">>, <<"B", "A">>, <<"A", "A">>, <<"C", "A">>}

SessionCall ==
    /\ s_names \in SessionNameLists
    /\ s_call = 1 /\ s_k = 0 /\ spc = "loop"
    /\ autoFitResults = <<>> /\ s_returned = <<>> /\ rng_pos = 0
    /\ numpy_choice = <<>> /\ numpy_eigh = <<>>
    /\ s_seed \in SeedPool

notFitSessionVars == <<frameVars, matchVars, contactVars, qcVars, ransacVars, workflowVars, libraryVars, assignFileVars, parserVars, uiVars>>

\* `for name in names:` up to the call of fit_electrode_axis_and_tip; a
\* name without a trajectory is skipped
FitNextName ==
    /\ spc = "loop"
    /\ s_k < Len(s_names)
    /\ s_k' = s_k + 1
    /\ LET name == s_names[s_k + 1]
       IN  IF name \notin DOMAIN SessionTrajectories
           THEN UNCHANGED <<fitVars, spc>>
           ELSE /\ spc' = "fit"
                /\ e_points' = SessionCandidates
                /\ e_entry' = SessionTrajectories[name].start
                /\ e_target' = SessionTrajectories[name].end
                /\ e_offsets' = <<80, 160>>
                /\ e_tip_at' = "target"
                /\ e_roi_radius' = FitMm(3)
                /\ e_max_angle' = 120000
                /\ e_max_depth_shift' = FitMm(2)
                /\ epc' = "call"
                /\ e_roi_pts' = <<>> /\ e_slab_centroids' = <<>> /\ e_iter' = 0
                /\ e_best' = None /\ e_fit' = None /\ e_result' = None
    /\ UNCHANGED <<s_names, s_call, autoFitResults, s_returned, rng_pos, numpy_choice,
                   numpy_eigh>>
    /\ UNCHANGED <<s_seed, notFitSessionVars>>

\* the fit up to the loop of ransac_fit_line, which makes its generator
FitSetUp ==
    /\ spc = "fit"
    /\ PrepareFit
    /\ rng_pos' = IF epc' = "ransac" THEN default_rng(rng_pos) ELSE rng_pos
    /\ UNCHANGED <<s_names, s_call, s_k, spc, autoFitResults, s_returned, numpy_choice,
                   numpy_eigh>>
    /\ UNCHANGED <<s_seed, notFitSessionVars>>

\* one iteration: the sample is the one the generator gave before at the
\* same seed, population and position, if it was asked before
FitSample ==
    /\ spc = "fit"
    /\ \E pair \in SamplePool(Len(e_slab_centroids)) :
          LET key == <<rng_seed, Len(e_slab_centroids), rng_pos + 1>>
          IN  /\ key \in DOMAIN numpy_choice => pair = numpy_choice[key]
              /\ SampleRansac(pair[1], pair[2])
              /\ numpy_choice' = Extend(numpy_choice, key, pair)
    /\ rng_pos' = rng_pos + 1
    /\ UNCHANGED <<s_names, s_call, s_k, spc, autoFitResults, s_returned, numpy_eigh>>
    /\ UNCHANGED <<s_seed, notFitSessionVars>>

\* the rest of the fit once the loop has run; the axis is the one eigh
\* gave before for the same points, if it was asked before
FitRefit ==
    /\ spc = "fit"
    /\ e_iter = IF MaxDraws < max_iterations THEN MaxDraws ELSE max_iterations
    /\ FinishFit
    /\ LET key == Masked(e_slab_centroids, RansacMask, 1)
       IN  IF epc' = "error" THEN UNCHANGED numpy_eigh
           ELSE /\ key \in DOMAIN numpy_eigh => e_fit'[1].fit_axis = numpy_eigh[key]
                /\ numpy_eigh' = Extend(numpy_eigh, key, e_fit'[1].fit_axis)
    /\ UNCHANGED <<s_names, s_call, s_k, spc, autoFitResults, s_returned, rng_pos,
                   numpy_choice>>
    /\ UNCHANGED <<s_seed, notFitSessionVars>>

\* the return of fit_electrode_axis_and_tip into the loop: a Success is
\* stored in self.autoFitResults; an exception ends the call
FitReturned ==
    /\ spc = "fit"
    /\ epc \in {"done", "error"}
    /\ IF epc = "error"
       THEN /\ spc' = "error"
            /\ UNCHANGED <<autoFitResults, s_returned>>
       ELSE /\ spc' = "loop"
            /\ s_returned' = Append(s_returned, [call |-> s_call, name |-> s_names[s_k],
                                                 fit |-> e_result[1]])
            /\ autoFitResults' = IF e_result[1].success
                                 THEN Extend(autoFitResults, s_names[s_k], e_result[1])
                                 ELSE autoFitResults
    /\ UNCHANGED <<s_names, s_call, s_k, rng_pos, numpy_choice, numpy_eigh>>
    /\ UNCHANGED fitVars
    /\ UNCHANGED <<s_seed, notFitSessionVars>>

\* the end of one call of _fit_trajectories; the widget then gets a second
\* call with names of its own
FitNamesDone ==
    /\ spc = "loop"
    /\ s_k = Len(s_names)
    /\ IF s_call = 1
       THEN /\ s_names' \in SessionNameLists
            /\ s_call' = 2
            /\ s_k' = 0
            /\ UNCHANGED spc
       ELSE /\ spc' = "done"
            /\ UNCHANGED <<s_names, s_call, s_k>>
    /\ UNCHANGED <<autoFitResults, s_returned, rng_pos, numpy_choice, numpy_eigh>>
    /\ UNCHANGED fitVars
    /\ UNCHANGED <<s_seed, notFitSessionVars>>

NextSession == FitNextName \/ FitSetUp \/ FitSample \/ FitRefit \/ FitReturned \/ FitNamesDone

InitSession ==
    SessionCall /\ IdleFrames /\ IdleMatch /\ IdleContacts /\ IdleQc /\ IdleFit /\ IdleRansac /\ IdleWorkflow /\ IdleLibrary /\ IdleAssignFile /\ IdleParser /\ IdleUi

SpecSession == InitSession /\ [][NextSession]_vars

(* Claims about repeated and reordered fits *)

C15_SeedIsCallers ==
    \A key \in DOMAIN numpy_choice : key[1] = s_seed

----------------------------------------------------------------------------
(* Claims about the reference checks of build_effective_matrices *)

\* the frames other than the root whose reference is present and outside
\* [0, N)
BadRefFrames ==
    {i \in FrameIndexes :
        /\ i # root_index
        /\ displays[i].imagery_3dref # None
        /\ displays[i].imagery_3dref[1] \notin FrameIndexes}

\* C16: a call that returns has found the parent reference of every
\* non-root frame absent or in [0, N), so no out-of-range reference was
\* replaced by a default parent; and the error for an out-of-range
\* reference names a non-root frame that has one, and that reference.
C16_ParentRefsChecked ==
    /\ FramesReturned => BadRefFrames = {}
    /\ (FramesFailed /\ ferror.kind = "invalid_ref") =>
          /\ ferror.index \in BadRefFrames
          /\ ferror.ref = displays[ferror.index].imagery_3dref[1]
          /\ \A i \in BadRefFrames : i >= ferror.index \/ cache[i] = None
    /\ (FramesFailed /\ RootValid /\ ferror.kind # "invalid_ref") =>
          ferror.kind = "cycle"

\* the last of three frames refers to frame 3 of 0..2 and the call fails
\* naming it, after the frames before it were composed
C16_Witness ==
    /\ FramesFailed
    /\ ferror.kind = "invalid_ref"
    /\ NumDisplays = 3
    /\ ferror.index = 2 /\ ferror.ref = 3
    /\ ncompose > 0


\* C17: for N >= 1 a root_index outside [0, N) ends the call with the
\* root_index error before any frame is resolved or composed, and only
\* such a root_index does; for N = 0 the call returns the empty list for
\* any root_index.
C17_RootIndexChecked ==
    /\ (NumDisplays >= 1 /\ ~RootValid /\ fpc # "call") =>
          /\ FramesFailed
          /\ ferror = [kind |-> "root_index", index |-> root_index]
          /\ ncompose = 0 /\ cache = <<>> /\ refs = <<>> /\ loop_i = 0
    /\ (FramesFailed /\ ferror.kind = "root_index") => (NumDisplays >= 1 /\ ~RootValid)
    /\ (NumDisplays = 0 /\ fpc # "call") => (FramesReturned /\ fresult = <<>>)

\* three frames and root_index 3: the call has failed on the root index
C17_Witness ==
    /\ FramesFailed
    /\ NumDisplays = 3 /\ root_index = 3
    /\ ferror.kind = "root_index"

----------------------------------------------------------------------------
(* Claims about the tolerance of suggest_model_id_for_trajectory *)

C18_WitnessInsideEpsilon ==
    /\ mpc = "done"
    /\ m_result # ""
    /\ DeltaOf(m_result) = m_tolerance + 3

\* ---------------------------------------------------------------------
\* generate_contacts: the returned list as a function of the arguments
\* ---------------------------------------------------------------------

\* the rows of the call that carry a model id, in the order of the list
ProcessedRows == SelectSeq(g_assignments, LAMBDA a : a.model_id # "")

OffsetsOfRow(a) == g_models[a.model_id].contact_center_offsets_from_tip_mm

\* number of contacts that the rows before row k account for
RECURSIVE GroupStart(_)
GroupStart(k) ==
    IF k <= 1 THEN 0
    ELSE GroupStart(k - 1) + Len(OffsetsOfRow(ProcessedRows[k - 1]))

\* the group of row k: one contact per offset of its model, index 1..n in
\* the order of the offsets, label = (trajectory name, index)
GroupAsClaimed(k) ==
    LET a == ProcessedRows[k]
        n == Len(OffsetsOfRow(a))
    IN  /\ Len(g_result) >= GroupStart(k) + n
        /\ \A idx \in 1..n :
              LET c == g_result[GroupStart(k) + idx]
              IN  /\ c.trajectory = a.trajectory
                  /\ c.model_id = a.model_id
                  /\ c.index = idx
                  /\ c.label = <<a.trajectory, idx>>
                  /\ c.position_lps = RowPositions(a)[idx]
                  /\ c.tip_at = a.tip_at

\* the returned list is made of the groups of the processed rows, in the
\* order of the rows, and of nothing else
ResultAsClaimed ==
    /\ \A k \in DOMAIN ProcessedRows : GroupAsClaimed(k)
    /\ Len(g_result) = GroupStart(Len(ProcessedRows) + 1)

ArgumentsKept ==
    /\ g_trajectories' = g_trajectories
    /\ g_models' = g_models
    /\ g_assignments' = g_assignments

\* C19: a call that returns, returns for every processed row as many
\* contacts as its model has offsets, with index 1..n in offset order and
\* the label (trajectory name, index), the groups in the order of the rows;
\* the list is determined by the three arguments alone, so that two calls
\* with the same arguments return the same list; no step of the call
\* changes the trajectories, the models or the assignments.
C19_ContactsFunctionOfInputs ==
    /\ [](gpc = "done" => ResultAsClaimed)
    /\ [][ArgumentsKept]_vars

\* C19 witness: a returned call with two processed rows of different
\* models, five contacts in two groups
C19_Witness ==
    /\ gpc = "done"
    /\ Len(ProcessedRows) = 2
    /\ ProcessedRows[1].model_id = "M2"
    /\ ProcessedRows[2].model_id = "M3"
    /\ Len(g_result) = 5
    /\ g_result[3].index = 1
    /\ g_result[3].label = <<ProcessedRows[2].trajectory, 1>>

\* ---------------------------------------------------------------------
\* compute_qc_metrics: which trajectories get a row
\* ---------------------------------------------------------------------

\* the contact indices > 0 that a name has in both contact lists
CommonIndices(name) ==
    {i \in {q_planned_contacts[k].index : k \in DOMAIN q_planned_contacts} :
        /\ i > 0
        /\ \E k \in DOMAIN q_planned_contacts :
              q_planned_contacts[k].trajectory = name /\ q_planned_contacts[k].index = i
        /\ \E k \in DOMAIN q_final_contacts :
              q_final_contacts[k].trajectory = name /\ q_final_contacts[k].index = i}

\* the names that occur in the final contacts, are in both trajectory maps
\* and have a common contact index > 0
MatchedNames ==
    {name \in ContactTrajectories(q_final_contacts) :
        /\ name \in DOMAIN q_planned
        /\ name \in DOMAIN q_final
        /\ CommonIndices(name) # {}}

\* the rows are those of the matched names, in sorted order, each with the
\* number of its common indices
RowsOfMatchedNames ==
    /\ qpc = "done"
    /\ [k \in DOMAIN q_rows[1] |-> q_rows[1][k].trajectory] = SortedNames(MatchedNames)
    /\ \A k \in DOMAIN q_rows[1] :
          q_rows[1][k].matched_contacts =
              Cardinality(CommonIndices(q_rows[1][k].trajectory))

ZeroLength(t) == t.start = t.end

\* the names of the final contacts that are in both maps
NamesInBothMaps ==
    ContactTrajectories(q_final_contacts) \cap DOMAIN q_planned \cap DOMAIN q_final

\* C20: every call returns, with exactly one row, in sorted name order, for
\* each name that occurs in the final contacts, is in both trajectory maps
\* and has a common contact index > 0, matched_contacts being the number of
\* the common indices; no other name gets a row and no call ends in an error.
C20_OneRowPerMatchedName == qpc \in {"done", "error"} => RowsOfMatchedNames

\* What the calls do when no trajectory that is looked at has zero length:
\* then the rows are exactly those of the matched names.
QcRowsWithoutZeroLength ==
    (/\ qpc \in {"done", "error"}
     /\ \A name \in NamesInBothMaps :
           ~ZeroLength(q_planned[name]) /\ ~ZeroLength(q_final[name]))
        => RowsOfMatchedNames

\* What the calls do with a zero-length trajectory: a name in both maps whose
\* planned trajectory has zero length gets no row, and the call raises
\* exactly when some name in both maps has a planned trajectory of non-zero
\* length and a final trajectory of zero length, matched contacts or not.
QcRowsWithZeroLength ==
    qpc \in {"done", "error"} =>
        /\ qpc = "error" <=>
              \E name \in NamesInBothMaps :
                  ~ZeroLength(q_planned[name]) /\ ZeroLength(q_final[name])
        /\ qpc = "done" =>
              [k \in DOMAIN q_rows[1] |-> q_rows[1][k].trajectory] =
                  SortedNames({name \in MatchedNames : ~ZeroLength(q_planned[name])})

\* ---------------------------------------------------------------------
\* fit_electrode_axis_and_tip: the diagnostics of a Failure
\* ---------------------------------------------------------------------

\* the stages of a finished call that were computed, restated from the
\* arguments: the ROI, the slab centroids, the angle of the fitted axis
RoiExtracted == e_points # <<>> /\ PlannedNonZero

SlabsSampled == RoiExtracted /\ Cardinality(RoiIndexes) >= 24

AngleComputed == SlabsSampled /\ e_fit # None

Carries(result, field) == field \in DOMAIN result

\* C21: every Failure that is returned has a reason, points_in_roi when the
\* ROI was extracted before it, slab_centroids when the slabs were sampled
\* before it and angle_deg when the angle was computed before it.
C21_FailureCarriesDiagnostics ==
    (FitDone /\ ~e_result[1].success) =>
        /\ Carries(e_result[1], "reason")
        /\ RoiExtracted => Carries(e_result[1], "points_in_roi")
        /\ SlabsSampled => Carries(e_result[1], "slab_centroids")
        /\ AngleComputed => Carries(e_result[1], "angle_deg")

\* the same for the Failures of the checks before the contact offsets
FailureDiagnosticsBeforeOffsets ==
    (FitDone /\ ~e_result[1].success /\ ~FitFailure("No model offsets provided")) =>
        /\ Carries(e_result[1], "reason")
        /\ RoiExtracted <=> Carries(e_result[1], "points_in_roi")
        /\ SlabsSampled <=> Carries(e_result[1], "slab_centroids")
        /\ AngleComputed <=> Carries(e_result[1], "angle_deg")

\* ---------------------------------------------------------------------
\* fit_electrode_axis_and_tip: the depth slabs
\* ---------------------------------------------------------------------

\* the slab centers -max_depth_shift_mm + k mm (k = 0, 1, 2, ...) that do
\* not exceed planned_length + max_depth_shift_mm
SlabCentersUpToLength ==
    {c \in {FitMm(k) - e_max_depth_shift :
              k \in 0..((PlannedLength + 2 * e_max_depth_shift) \div FitMm(1) + 1)} :
        c <= PlannedLength + e_max_depth_shift}

\* the ROI points within 0.9 mm in depth of the center c
RoiInSlab(c) == {k \in RoiIndexes : Abs(DepthOf(e_points[k]) - c) <= 36}

RetainedSlabs == {c \in SlabCentersUpToLength : Cardinality(RoiInSlab(c)) >= 8}

\* the sum over the points of a set of indexes
RECURSIVE SumOfPoints(_)
SumOfPoints(idxs) ==
    IF idxs = {} THEN <<0, 0, 0>>
    ELSE LET k == CHOOSE k \in idxs : TRUE
         IN  Add3(e_points[k], SumOfPoints(idxs \ {k}))

\* the retained centers in ascending order
RECURSIVE AscendingCenters(_)
AscendingCenters(cs) ==
    IF cs = {} THEN <<>>
    ELSE LET c == CHOOSE c \in cs : \A d \in cs : c <= d
         IN  <<c>> \o AscendingCenters(cs \ {c})

\* one centroid per retained slab, the mean of the ROI points of the slab
CentroidsOfRetainedSlabs ==
    LET cs == AscendingCenters(RetainedSlabs)
    IN  /\ Len(e_slab_centroids) = Len(cs)
        /\ \A i \in DOMAIN cs :
              Mul3(e_slab_centroids[i], Cardinality(RoiInSlab(cs[i]))) =
                  SumOfPoints(RoiInSlab(cs[i]))

\* C24: once the slabs are sampled, the centroids are those of the slabs
\* centered at -max_depth_shift_mm + k mm, none above planned_length +
\* max_depth_shift_mm, that hold at least 8 ROI points within 0.9 mm of the
\* center, one centroid (the mean of those points) per such slab; and with
\* fewer than 8 such slabs the call ends in a Failure.
C24_SlabSampling ==
    (epc \in {"ransac", "done"} /\ SlabsSampled) =>
        /\ CentroidsOfRetainedSlabs
        /\ Cardinality(RetainedSlabs) < 8 =>
              FitFailure("Too few slab centroids for robust line fit")

\* the same for planned lengths of a whole number of millimetres
SlabSamplingWholeLength ==
    (epc \in {"ransac", "done"} /\ SlabsSampled /\ PlannedLength % FitMm(1) = 0) =>
        /\ CentroidsOfRetainedSlabs
        /\ Cardinality(RetainedSlabs) < 8 <=>
              FitFailure("Too few slab centroids for robust line fit")

\* the same with the centers that the code loops over: those below
\* planned_length + max_depth_shift_mm + 0.5 mm
SlabSamplingHalfStepBeyond ==
    (epc \in {"ransac", "done"} /\ SlabsSampled) =>
        /\ Len(e_slab_centroids) = Cardinality(PopulatedSlabs)
        /\ Cardinality(PopulatedSlabs) < 8 <=>
              FitFailure("Too few slab centroids for robust line fit")

\* ---------------------------------------------------------------------
\* build_effective_matrices: termination and the number of compositions
\* ---------------------------------------------------------------------

FramesEnded == fpc \in {"done", "error"}

\* C25: every call ends, with the result or with an error, whatever the
\* reference graph; a call that returns has made exactly one matrix
\* composition per non-root frame, N - 1 for N >= 1 frames.
C25_TerminatesLinear ==
    /\ <>FramesEnded
    /\ [](fpc = "done" =>
            /\ DOMAIN fresult = DOMAIN displays
            /\ ncompose = (IF NumDisplays = 0 THEN 0 ELSE NumDisplays - 1))

\* C25 witness: three frames, frame 1 refers to frame 2 and frame 2 to the
\* root 0, so that frame 2 is resolved inside to_root(1) and found memoized
\* by the loop: two compositions
C25_Witness ==
    /\ fpc = "done"
    /\ NumDisplays = 3
    /\ root_index = 0
    /\ refs[1] = 2
    /\ refs[2] = 0
    /\ ncompose = 2

\* a call on a cyclic graph that has ended
C25_WitnessCycle ==
    /\ fpc = "error"
    /\ ferror.kind = "cycle"
    /\ NumDisplays = 3

\* ---------------------------------------------------------------------
\* suggest_model_id_for_trajectory: the id returned
\* ---------------------------------------------------------------------

\* C26: the id returned is the empty string or an id of the catalog, also
\* when the model_ids argument holds ids that the catalog lacks.
C26_ResultInCatalog == mpc = "done" => (m_result = "" \/ m_result \in DOMAIN m_models)

\* the same for the calls whose candidates are all ids of the catalog
ResultInCatalogOfKnownIds ==
    (mpc = "done" /\ CandidateIds \subseteq DOMAIN m_models) =>
        (m_result = "" \/ m_result \in DOMAIN m_models)

\* the candidate list of the call in every order
Reorderings(seq) ==
    {[k \in 1..Len(seq) |-> seq[p[k]]] : p \in Permutations(1..Len(seq))}

\* C27: for the catalog, trajectory and tolerance of the call, every order
\* of the candidate ids yields the id that the call returned.
C27_OrderIndependent ==
    mpc = "done" =>
        \A ids \in Reorderings(Candidates(m_models, m_model_ids)) :
            suggest_model_id_for_trajectory(m_trajectory, m_models, Some(ids),
                                            m_tolerance) = m_result

\* the same for the calls in which no two candidates within tolerance have
\* deltas or lengths that differ by less than the epsilon without being equal
NoNearTies ==
    \A a, b \in WithinTolerance :
        LET la == ModelGet(m_models, a).total_exploration_length_mm
            lb == ModelGet(m_models, b).total_exploration_length_mm
        IN  /\ DeltaOf(a) = DeltaOf(b) \/ Abs(DeltaOf(a) - DeltaOf(b)) > Eps
            /\ la = lb \/ Abs(la - lb) > Eps

OrderIndependentWithoutNearTies ==
    (mpc = "done" /\ NoNearTies) =>
        \A ids \in Reorderings(Candidates(m_models, m_model_ids)) :
            suggest_model_id_for_trajectory(m_trajectory, m_models, Some(ids),
                                            m_tolerance) = m_result

----------------------------------------------------------------------------
(* RosaHelper.py: the auto-fit handlers of RosaHelperWidget *)

\* The case that Load loads has the trajectories A and B, in this order.
LoadedNames == <<"A", "B">>

\* A line markup is where the case planned it or where a fit put it.
PlannedPosition == "planned"

FittedPosition == "fitted"

LinePositions == {PlannedPosition, FittedPosition}

\* What fit_electrode_axis_and_tip finds around a trajectory position in the
\* detected candidates: too few points, or an electrode at 3 or at 8 degrees
\* from the trajectory.  The candidates and the other arguments of the fit
\* are the same in every call, so the fit is a function of the trajectory
\* and of max_angle_deg.
CtFindings == {"none", "low", "high"}

AngleOfFinding(finding) == IF finding = "low" THEN 30000 ELSE 80000

\* the values of the max-angle spin box tried
MaxAngleSettings == {50000, 120000}

fit_in_workflow(name, position, max_angle_deg) ==
    LET finding == w_ct[<<name, position>>]
    IN  IF finding = "none"
        THEN [success |-> FALSE, reason |-> "Too few CT points in ROI"]
        ELSE IF AngleOfFinding(finding) > max_angle_deg
        THEN [success |-> FALSE, reason |-> "Angle deviation exceeds max",
              angle_deg |-> AngleOfFinding(finding)]
        ELSE [success |-> TRUE, entry_target |-> FittedPosition,
              angle_deg |-> AngleOfFinding(finding)]

NamesOf(seq) == {seq[k] : k \in DOMAIN seq}

\* the latest attempt of a name: none yet, skipped, failed, or fitted
Attempt(kind) == [kind |-> kind]

NoAttempts == [name \in NamesOf(LoadedNames) |-> Attempt("none")]

WorkflowStart ==
    /\ w_ct \in [NamesOf(LoadedNames) \X LinePositions -> CtFindings]
    /\ w_loaded = <<>>
    /\ w_line = <<>>
    /\ w_candidates = 0
    /\ w_results = <<>>
    /\ w_preview = {}
    /\ w_last = NoAttempts
    /\ w_op = "start"

\* onLoadClicked: no case folder or a failing load_case change nothing
OnLoadClicked(loads) ==
    /\ w_op' = "load"
    /\ IF ~loads
       THEN UNCHANGED <<w_loaded, w_line, w_candidates, w_results, w_last>>
       ELSE /\ w_loaded' = LoadedNames
            /\ w_line' = [name \in NamesOf(LoadedNames) |-> PlannedPosition]
            /\ w_candidates' = 0
            /\ w_results' = <<>>
            /\ w_last' = NoAttempts
    /\ UNCHANGED <<w_ct, w_preview>>

\* onDetectCandidatesClicked: without a volume, or when the extraction
\* raises, nothing changes; otherwise count points are detected
OnDetectCandidatesClicked(detects, count) ==
    /\ w_op' = "detect"
    /\ IF ~detects
       THEN UNCHANGED <<w_candidates, w_results, w_preview, w_last>>
       ELSE /\ w_preview' = {}
            /\ w_candidates' = count
            /\ w_results' = <<>>
            /\ w_last' = NoAttempts
    /\ UNCHANGED <<w_ct, w_loaded, w_line>>

\* the loop `for name in names` of _fit_trajectories from name k on, with
\* the names that have a model in the table and the max-angle setting
RECURSIVE FitLoop(_, _, _, _, _)
FitLoop(names, k, assigned, max_angle_deg, st) ==
    IF k > Len(names) THEN st
    ELSE LET name == names[k]
             fit == fit_in_workflow(name, w_line[name], max_angle_deg)
             next ==
                 IF name \notin DOMAIN w_line
                 THEN [st EXCEPT !.last = Extend(st.last, name, Attempt("skipped"))]
                 ELSE IF name \notin assigned
                 THEN [st EXCEPT !.last = Extend(st.last, name, Attempt("skipped"))]
                 ELSE IF fit.success
                 THEN [results |-> Extend(st.results, name, fit),
                       preview |-> st.preview \cup {name},
                       last |-> Extend(st.last, name, [kind |-> "fitted", fit |-> fit])]
                 ELSE [st EXCEPT !.last = Extend(st.last, name, Attempt("failed"))]
         IN  FitLoop(names, k + 1, assigned, max_angle_deg, next)

\* _fit_trajectories(names): raises without candidates
FitTrajectories(names, assigned, max_angle_deg) ==
    IF w_candidates = 0
    THEN UNCHANGED <<w_results, w_preview, w_last>>
    ELSE LET st == FitLoop(names, 1, assigned, max_angle_deg,
                           [results |-> w_results, preview |-> w_preview,
                            last |-> w_last])
         IN  /\ w_results' = st.results
             /\ w_preview' = st.preview
             /\ w_last' = st.last

\* onFitSelectedClicked with the name shown by the selector ("" when empty)
OnFitSelectedClicked(name, assigned, max_angle_deg) ==
    /\ w_op' = "fit_selected"
    /\ IF name = ""
       THEN UNCHANGED <<w_results, w_preview, w_last>>
       ELSE FitTrajectories(<<name>>, assigned, max_angle_deg)
    /\ UNCHANGED <<w_ct, w_loaded, w_line, w_candidates>>

\* onFitAllClicked: the names of the table rows that have a model
OnFitAllClicked(assigned, max_angle_deg) ==
    /\ w_op' = "fit_all"
    /\ LET names == SelectSeq(w_loaded, LAMBDA n : n \in assigned)
       IN  IF names = <<>>
           THEN UNCHANGED <<w_results, w_preview, w_last>>
           ELSE FitTrajectories(names, assigned, max_angle_deg)
    /\ UNCHANGED <<w_ct, w_loaded, w_line, w_candidates>>

\* onApplyFitClicked: every stored fit moves the line markup of its name;
\* the contact update that follows reads the lines and leaves them alone
OnApplyFitClicked ==
    /\ w_op' = "apply"
    /\ IF DOMAIN w_results = {}
       THEN UNCHANGED <<w_line, w_results, w_preview>>
       ELSE /\ w_line' = [name \in DOMAIN w_line |->
                            IF name \in DOMAIN w_results /\ w_results[name].success
                            THEN w_results[name].entry_target
                            ELSE w_line[name]]
            /\ w_preview' = {}
            /\ w_results' = <<>>
    /\ UNCHANGED <<w_ct, w_loaded, w_candidates, w_last>>

SelectorNames == IF w_loaded = <<>> THEN {""} ELSE NamesOf(w_loaded)

LoadClick == (\E loads \in BOOLEAN : OnLoadClicked(loads)) /\ UNCHANGED notWorkflowVars

DetectClick == (\E detects \in BOOLEAN, count \in {0, 24} : OnDetectCandidatesClicked(detects, count)) /\ UNCHANGED notWorkflowVars

FitSelectedClick == (\E name \in SelectorNames, assigned \in SUBSET NamesOf(w_loaded), a \in MaxAngleSettings : OnFitSelectedClicked(name, assigned, a)) /\ UNCHANGED notWorkflowVars

FitAllClick == (\E assigned \in SUBSET NamesOf(w_loaded), a \in MaxAngleSettings : OnFitAllClicked(assigned, a)) /\ UNCHANGED notWorkflowVars

ApplyFitClick == OnApplyFitClicked /\ UNCHANGED notWorkflowVars

NextWorkflow == LoadClick \/ DetectClick \/ FitSelectedClick \/ FitAllClick \/ ApplyFitClick

InitWorkflow == WorkflowStart /\ IdleFrames /\ IdleMatch /\ IdleContacts /\ IdleQc /\ IdleFit /\ IdleRansac /\ IdleSession /\ IdleLibrary /\ IdleAssignFile /\ IdleParser /\ IdleUi

SpecWorkflow == InitWorkflow /\ [][NextWorkflow]_vars

(* Claims about the auto-fit workflow *)

\* C28: Apply Fit moves the line of a trajectory only when the latest fit
\* attempt for it since the last Load or Detect Candidates succeeded, and
\* then to the result of that attempt; a trajectory whose latest attempt
\* failed or was skipped has no stored result when Apply Fit runs and keeps
\* its line; after Apply Fit no stored results remain.
C28_ApplyLatestFitOnly ==
    [][w_op' = "apply" =>
          /\ \A name \in DOMAIN w_line :
                IF w_last[name].kind \in {"skipped", "failed"}
                THEN name \notin DOMAIN w_results /\ w_line'[name] = w_line[name]
                ELSE w_line'[name] # w_line[name] =>
                        /\ w_last[name].kind = "fitted"
                        /\ w_line'[name] = w_last[name].fit.entry_target
          /\ w_results' = <<>>]_vars

----------------------------------------------------------------------------
(* electrode_models.py: load_electrode_library, validate_electrode_library *)

_REQUIRED_MODEL_KEYS ==
    {"id", "type", "contact_count", "contact_length_mm", "diameter_mm",
     "total_exploration_length_mm", "contact_center_offsets_from_tip_mm"}

\* JSON numbers: contact_count is kept in tenths (25 is 2.5); an offset is
\* <<v>> for the number v and <<>> for NaN, which json.loads accepts.
NaN == <<>>

Tenths(x) == 10 * x

\* int(model["contact_count"]) of a non-negative number
IntOfTenths(x) == x \div 10

\* offsets[i] >= offsets[i + 1] on floats: false when either is NaN
FloatGeq(a, b) == a # NaN /\ b # NaN /\ a[1] >= b[1]

\* the variant rejects NaN as well
FloatNotLess(a, b) == a = NaN \/ b = NaN \/ a[1] >= b[1]

\* The (contact_count, offsets) pairs of the models tried
ModelShapes ==
    { <<Tenths(2), <<Some(2), Some(6)>> >>,
      <<Tenths(3), <<Some(2), Some(6), Some(10)>> >>,
      <<Tenths(0), << >> >>,
      <<Tenths(3), <<Some(2), Some(6)>> >>,
      <<Tenths(2), <<Some(2), Some(6), Some(10)>> >>,
      <<Tenths(2), <<Some(6), Some(2)>> >>,
      <<Tenths(2), <<Some(2), Some(2)>> >>,
      <<Tenths(3), <<Some(2), Some(10), Some(6)>> >>,
      <<25, <<Some(2), Some(6)>> >>,
      <<Tenths(3), <<Some(2), NaN, Some(1)>> >> }

FullModel(id, shape) ==
    [key \in _REQUIRED_MODEL_KEYS |->
        CASE key = "id" -> <<"id", id>>
          [] key = "contact_count" -> <<"number", shape[1]>>
          [] key = "contact_center_offsets_from_tip_mm" -> <<"list", shape[2]>>
          [] OTHER -> <<"any", 0>>]

Without(model, key) == [k \in DOMAIN model \ {key} |-> model[k]]

\* complete models, and models that lack one key
LibraryModels ==
    {FullModel(id, shape) : id \in {"M1", "M2"}, shape \in ModelShapes}
    \cup {Without(FullModel(id, <<Tenths(2), <<Some(2), Some(6)>> >>), key) :
            id \in {"M1", "M2"},
            key \in {"id", "contact_count", "diameter_mm",
                     "contact_center_offsets_from_tip_mm"}}

\* the documents: a JSON array, an object without "models", an object whose
\* "models" is not a list, and objects with a list of models
LibraryDocuments ==
    {[is_dict |-> FALSE, has_models |-> FALSE, models_is_list |-> FALSE, models |-> <<>>],
     [is_dict |-> TRUE, has_models |-> FALSE, models_is_list |-> FALSE, models |-> <<>>],
     [is_dict |-> TRUE, has_models |-> TRUE, models_is_list |-> FALSE, models |-> <<>>]}
    \cup {[is_dict |-> TRUE, has_models |-> TRUE, models_is_list |-> TRUE, models |-> ms] :
            ms \in UNION {[1..n -> LibraryModels] : n \in 0..MaxLibraryModels}}

LibraryCall ==
    /\ l_data \in LibraryDocuments
    /\ lpc = "call"
    /\ l_k = 0
    /\ l_seen_ids = {}
    /\ l_error = None
    /\ l_loaded = None

LibraryRaise(kind) ==
    /\ lpc' = "error"
    /\ l_error' = Some([kind |-> kind])

\* validate_electrode_library, lines 40-45: the two checks of the document
ValidateStart ==
    /\ lpc = "call"
    /\ IF ~l_data.is_dict
       THEN LibraryRaise("not_an_object")
       ELSE IF ~l_data.has_models \/ ~l_data.models_is_list
       THEN LibraryRaise("no_models_list")
       ELSE lpc' = "loop" /\ UNCHANGED l_error
    /\ UNCHANGED <<l_data, l_k, l_seen_ids, l_loaded>>
    /\ UNCHANGED notLibraryVars

\* lines 46-64: one iteration of `for model in data["models"]`
ValidateModel ==
    /\ lpc = "loop"
    /\ l_k < Len(l_data.models)
    /\ LET model == l_data.models[l_k + 1]
           missing == {k \in _REQUIRED_MODEL_KEYS : k \notin DOMAIN model}
       IN  IF missing # {}
           THEN LibraryRaise("missing_fields") /\ UNCHANGED <<l_k, l_seen_ids>>
           ELSE LET model_id == model["id"][2]
                    offsets == model["contact_center_offsets_from_tip_mm"][2]
                    contact_count == model["contact_count"][2]
                IN  IF model_id \in l_seen_ids
                    THEN LibraryRaise("duplicate_id") /\ UNCHANGED <<l_k, l_seen_ids>>
                    ELSE /\ l_seen_ids' = l_seen_ids \cup {model_id}
                         /\ IF Len(offsets) # IntOfTenths(contact_count)
                            THEN LibraryRaise("contact_count") /\ UNCHANGED l_k
                            ELSE IF \E i \in 1..(Len(offsets) - 1) :
                                        FloatGeq(offsets[i], offsets[i + 1])
                            THEN LibraryRaise("not_increasing") /\ UNCHANGED l_k
                            ELSE /\ l_k' = l_k + 1
                                 /\ UNCHANGED <<lpc, l_error>>
    /\ UNCHANGED <<l_data, l_loaded>>
    /\ UNCHANGED notLibraryVars

\* the loop is over: validate_electrode_library returns
ValidateReturn ==
    /\ lpc = "loop"
    /\ l_k = Len(l_data.models)
    /\ lpc' = "valid"
    /\ UNCHANGED <<l_data, l_k, l_seen_ids, l_error, l_loaded>>
    /\ UNCHANGED notLibraryVars

\* load_electrode_library, line 29: `return data` after the validation
LoadReturn ==
    /\ lpc = "valid"
    /\ lpc' = "done"
    /\ l_loaded' = Some(l_data)
    /\ UNCHANGED <<l_data, l_k, l_seen_ids, l_error>>
    /\ UNCHANGED notLibraryVars

\* model_map(data)
model_map(data) ==
    LET ids == {data.models[k]["id"][2] : k \in DOMAIN data.models}
    IN  [id \in ids |->
            data.models[CHOOSE k \in DOMAIN data.models :
                /\ data.models[k]["id"][2] = id
                /\ \A j \in DOMAIN data.models : data.models[j]["id"][2] = id => j <= k]]

NextLibrary == ValidateStart \/ ValidateModel \/ ValidateReturn \/ LoadReturn

InitLibrary == LibraryCall /\ IdleFrames /\ IdleMatch /\ IdleContacts /\ IdleQc /\ IdleFit /\ IdleRansac /\ IdleSession /\ IdleWorkflow /\ IdleAssignFile /\ IdleParser /\ IdleUi

SpecLibrary == InitLibrary /\ [][NextLibrary]_vars

(* Claims about the electrode library *)

HasModelsList(data) == data.is_dict /\ data.has_models /\ data.models_is_list

LacksKey(model) == ~(_REQUIRED_MODEL_KEYS \subseteq DOMAIN model)

OffsetsOf(model) == model["contact_center_offsets_from_tip_mm"][2]

CountMatches(model) == Tenths(Len(OffsetsOf(model))) = model["contact_count"][2]

StrictlyIncreasing(offsets) ==
    \A i \in 1..(Len(offsets) - 1) :
        offsets[i] # NaN /\ offsets[i + 1] # NaN /\ offsets[i][1] < offsets[i + 1][1]

\* what makes the model at position k unacceptable
FaultyModel(data, k) ==
    \/ LacksKey(data.models[k])
    \/ \E j \in 1..(k - 1) : data.models[j]["id"] = data.models[k]["id"]
    \/ ~CountMatches(data.models[k])
    \/ ~StrictlyIncreasing(OffsetsOf(data.models[k]))

MustBeRejected(data) ==
    \/ ~HasModelsList(data)
    \/ \E k \in DOMAIN data.models : LacksKey(data.models[k])
    \/ \E k \in DOMAIN data.models : FaultyModel(data, k)

LibraryEnded == lpc \in {"valid", "done", "error"}

\* C22: the validation ends in an error for exactly the documents that are
\* not an object with a models list or hold a model that lacks a required
\* key, repeats an earlier id, has a number of offsets other than
\* contact_count or has offsets that are not strictly increasing; a
\* document is returned by load_electrode_library only after it passed,
\* and every returned catalog has unique ids, strictly increasing offsets
\* of length contact_count, and a model_map with one entry per model.
C22_LibraryValidated ==
    /\ LibraryEnded => (lpc = "error" <=> MustBeRejected(l_data))
    /\ l_loaded # None =>
          /\ lpc = "done"
          /\ l_loaded[1] = l_data
          /\ \A k \in DOMAIN l_data.models :
                /\ ~LacksKey(l_data.models[k])
                /\ CountMatches(l_data.models[k])
                /\ StrictlyIncreasing(OffsetsOf(l_data.models[k]))
                /\ \A j \in DOMAIN l_data.models :
                      j # k => l_data.models[j]["id"] # l_data.models[k]["id"]
          /\ Cardinality(DOMAIN model_map(l_data)) = Len(l_data.models)

WholeNumbers(data) ==
    \A k \in DOMAIN data.models :
        ~LacksKey(data.models[k]) =>
            /\ data.models[k]["contact_count"][2] % 10 = 0
            /\ \A i \in DOMAIN OffsetsOf(data.models[k]) : OffsetsOf(data.models[k])[i] # NaN

\* the same for the documents whose contact counts are whole numbers and
\* whose offsets are numbers
LibraryValidatedWholeNumbers ==
    (HasModelsList(l_data) => WholeNumbers(l_data)) => C22_LibraryValidated

----------------------------------------------------------------------------
(* contacts.py: load_assignments, save_assignment_template *)

\* JSON values: a string, a number, a list of values, and an object as the
\* list of its (key, value) pairs in insertion order.
Str(s) == <<"str", s>>

Num(n) == <<"num", n>>

List(items) == <<"list", items>>

Dict(pairs) == <<"dict", pairs>>

\* JSON text as tokens: strings, numbers and punctuation
Punct(p) == <<"punct", p>>

RECURSIVE dumps(_)
RECURSIVE DumpItems(_)
RECURSIVE DumpPairs(_)

\* json.dump(value)
dumps(value) ==
    CASE value[1] = "list" -> <<Punct("[")>> \o DumpItems(value[2]) \o <<Punct("]")>>
      [] value[1] = "dict" -> <<Punct("{")>> \o DumpPairs(value[2]) \o <<Punct("}")>>
      [] OTHER -> <<value>>

DumpItems(items) ==
    IF items = <<>> THEN <<>>
    ELSE dumps(Head(items))
            \o (IF Len(items) > 1 THEN <<Punct(",")>> \o DumpItems(Tail(items)) ELSE <<>>)

DumpPairs(pairs) ==
    IF pairs = <<>> THEN <<>>
    ELSE <<Str(Head(pairs)[1]), Punct(":")>> \o dumps(Head(pairs)[2])
            \o (IF Len(pairs) > 1 THEN <<Punct(",")>> \o DumpPairs(Tail(pairs)) ELSE <<>>)

HasKey(dict, key) == \E k \in DOMAIN dict[2] : dict[2][k][1] = key

Get(dict, key) == dict[2][CHOOSE k \in DOMAIN dict[2] : dict[2][k][1] = key][2]

\* d[key] = value of a Python dict: a repeated key keeps its position
DictSet(pairs, key, value) ==
    IF \E k \in DOMAIN pairs : pairs[k][1] = key
    THEN [k \in DOMAIN pairs |-> IF pairs[k][1] = key THEN <<key, value>> ELSE pairs[k]]
    ELSE Append(pairs, <<key, value>>)

RECURSIVE ParseValue(_, _)
RECURSIVE ParseList(_, _, _)
RECURSIVE ParseDict(_, _, _)

\* the JSON decoder: the value that starts at token i and the position after it
ParseValue(text, i) ==
    IF text[i][1] \in {"str", "num"} THEN [val |-> text[i], next |-> i + 1]
    ELSE IF text[i] = Punct("[") THEN ParseList(text, i + 1, <<>>)
    ELSE ParseDict(text, i + 1, <<>>)

ParseList(text, i, items) ==
    IF text[i] = Punct("]") THEN [val |-> List(items), next |-> i + 1]
    ELSE IF text[i] = Punct(",") THEN ParseList(text, i + 1, items)
    ELSE LET item == ParseValue(text, i)
         IN  ParseList(text, item.next, Append(items, item.val))

ParseDict(text, i, pairs) ==
    IF text[i] = Punct("}") THEN [val |-> Dict(pairs), next |-> i + 1]
    ELSE IF text[i] = Punct(",") THEN ParseDict(text, i + 1, pairs)
    ELSE LET item == ParseValue(text, i + 2)
         IN  ParseDict(text, item.next, DictSet(pairs, text[i][2], item.val))

\* json.loads(text)
loads(text) == ParseValue(text, 1).val

\* the row load_assignments builds for one item of a shorthand document
ShorthandRow(traj_name, model_id) ==
    Dict(<< <<"trajectory", Str(traj_name)>>,
            <<"model_id", model_id>>,
            <<"tip_at", Str("target")>>,
            <<"tip_shift_mm", Num(0)>>,
            <<"xyz_offset_mm", List(<<Num(0), Num(0), Num(0)>>)>> >>)

ExplicitDocument(rows) ==
    Dict(<< <<"schema_version", Str("1.0")>>, <<"assignments", List(rows)>> >>)

\* load_assignments on the parsed document: [ok, value]
load_assignments(text) ==
    LET data == loads(text)
    IN  IF data[1] = "dict" /\ HasKey(data, "assignments")
        THEN [ok |-> TRUE, value |-> data]
        ELSE IF data[1] = "dict"
        THEN [ok |-> TRUE,
              value |-> ExplicitDocument(
                  [k \in DOMAIN data[2] |-> ShorthandRow(data[2][k][1], data[2][k][2])])]
        ELSE [ok |-> FALSE, value |-> Str("Unsupported assignments format")]

\* save_assignment_template(path, template): the text written
save_assignment_template(template) == dumps(template)

\* The documents tried
TrajectoryNames == {"RHH", "LHH", "assignments"}

ShorthandValues == {Str("DIXI-15AM"), Str("DIXI-15CM"), Num(5)}

DistinctKeys(keys) == \A i, j \in DOMAIN keys : i # j => keys[i] # keys[j]

ShorthandDocuments ==
    {Dict([k \in 1..n |-> <<keys[k], values[k]>>]) :
        <<n, keys, values>> \in
            {t \in UNION {{n} \X [1..n -> TrajectoryNames] \X [1..n -> ShorthandValues] :
                            n \in 0..MaxAssignments} : DistinctKeys(t[2])}}

ExplicitRows ==
    {ShorthandRow("RHH", Str("DIXI-15AM")),
     Dict(<< <<"trajectory", Str("LHH")>>,
             <<"model_id", Str("DIXI-15CM")>>,
             <<"tip_at", Str("entry")>>,
             <<"tip_shift_mm", Num(2)>>,
             <<"xyz_offset_mm", List(<<Num(1), Num(0), Num(3)>>)>> >>),
     Dict(<< <<"trajectory", Str("assignments")>>, <<"model_id", Str("")>> >>)}

ExplicitDocuments ==
    {ExplicitDocument(rows) :
        rows \in UNION {[1..n -> ExplicitRows] : n \in 0..MaxAssignments}}
    \cup {Dict(<< <<"assignments", List(<<row>>)>> >>) : row \in ExplicitRows}

OtherDocuments ==
    {List(<<Str("RHH"), Str("DIXI-15AM")>>), Str("RHH"), Num(5), List(<<>>)}

AssignFileCall ==
    /\ af_text \in {dumps(doc) :
                      doc \in ShorthandDocuments \cup ExplicitDocuments \cup OtherDocuments}
    /\ afpc = "call"
    /\ af_result = None
    /\ af_error = None
    /\ af_saved = <<>>
    /\ af_reloaded = None

\* load_assignments(path) on the file
LoadFile ==
    /\ afpc = "call"
    /\ LET r == load_assignments(af_text)
       IN  IF r.ok
           THEN afpc' = "loaded" /\ af_result' = Some(r.value) /\ UNCHANGED af_error
           ELSE afpc' = "error" /\ af_error' = Some(r.value) /\ UNCHANGED af_result
    /\ UNCHANGED <<af_text, af_saved, af_reloaded>>
    /\ UNCHANGED notAssignFileVars

\* save_assignment_template(path2, loaded document)
SaveFile ==
    /\ afpc = "loaded"
    /\ afpc' = "saved"
    /\ af_saved' = save_assignment_template(af_result[1])
    /\ UNCHANGED <<af_text, af_result, af_error, af_reloaded>>
    /\ UNCHANGED notAssignFileVars

\* load_assignments(path2)
ReloadFile ==
    /\ afpc = "saved"
    /\ LET r == load_assignments(af_saved)
       IN  IF r.ok
           THEN afpc' = "reloaded" /\ af_reloaded' = Some(r.value) /\ UNCHANGED af_error
           ELSE afpc' = "error" /\ af_error' = Some(r.value) /\ UNCHANGED af_reloaded
    /\ UNCHANGED <<af_text, af_result, af_saved>>
    /\ UNCHANGED notAssignFileVars

NextAssignFile == LoadFile \/ SaveFile \/ ReloadFile

InitAssignFile == AssignFileCall /\ IdleFrames /\ IdleMatch /\ IdleContacts /\ IdleQc /\ IdleFit /\ IdleRansac /\ IdleSession /\ IdleWorkflow /\ IdleLibrary /\ IdleParser /\ IdleUi

SpecAssignFile == InitAssignFile /\ [][NextAssignFile]_vars

(* Claims about the assignment file *)

\* the document in the file, read without the code under test
FileDocument ==
    CHOOSE doc \in ShorthandDocuments \cup ExplicitDocuments \cup OtherDocuments :
        dumps(doc) = af_text

\* a mapping trajectory_name -> model_id
IsShorthand(doc) ==
    /\ doc[1] = "dict"
    /\ \A k \in DOMAIN doc[2] : doc[2][k][2][1] = "str"

\* an object whose "assignments" is a list of objects
IsExplicit(doc) ==
    /\ doc[1] = "dict"
    /\ HasKey(doc, "assignments")
    /\ Get(doc, "assignments")[1] = "list"
    /\ \A k \in DOMAIN Get(doc, "assignments")[2] : Get(doc, "assignments")[2][k][1] = "dict"

NormalizedRows(doc) ==
    [k \in DOMAIN doc[2] |->
        Dict(<< <<"trajectory", Str(doc[2][k][1])>>,
                <<"model_id", doc[2][k][2]>>,
                <<"tip_at", Str("target")>>,
                <<"tip_shift_mm", Num(0)>>,
                <<"xyz_offset_mm", List(<<Num(0), Num(0), Num(0)>>)>> >>)]

AssignFileLoaded == afpc \in {"loaded", "saved", "reloaded", "error"}

ShorthandNormalized ==
    /\ af_result # None
    /\ af_result[1][1] = "dict"
    /\ HasKey(af_result[1], "assignments")
    /\ Get(af_result[1], "assignments") = List(NormalizedRows(FileDocument))

RoundTripEqual ==
    /\ af_reloaded # None
    /\ HasKey(af_reloaded[1], "assignments")
    /\ Get(af_reloaded[1], "assignments") = Get(af_result[1], "assignments")

\* C23: once load_assignments has run, a shorthand document (a mapping of
\* trajectory names, whatever they are, to model ids) has been normalized
\* into one row per key in key order with tip_at "target", tip_shift_mm 0
\* and xyz_offset_mm [0, 0, 0]; a document that is neither a shorthand nor
\* an explicit document has been rejected with an error; and the loaded
\* document, saved and loaded again, gives an equal assignment list.
C23_NormalizeAndRoundTrip ==
    AssignFileLoaded =>
        /\ IsShorthand(FileDocument) => ShorthandNormalized
        /\ ~IsShorthand(FileDocument) /\ ~IsExplicit(FileDocument) =>
              afpc = "error" /\ af_error # None /\ af_result = None
        /\ afpc \in {"reloaded", "error"} /\ af_result # None /\ HasKey(af_result[1], "assignments")
              => RoundTripEqual

\* what the code does: only a document that is not an object is rejected,
\* an object with a key "assignments" is returned as it is, every other
\* object is normalized key by key, and saving and loading a returned
\* document returns an equal document
LoadAssignmentsAsCoded ==
    AssignFileLoaded =>
        /\ afpc = "error" <=> FileDocument[1] # "dict"
        /\ afpc # "error" =>
              IF HasKey(FileDocument, "assignments")
              THEN af_result = Some(FileDocument)
              ELSE af_result = Some(ExplicitDocument(NormalizedRows(FileDocument)))
        /\ afpc = "reloaded" => af_reloaded = af_result

NoTrajectoryNamedAssignments ==
    FileDocument[1] = "dict" /\ ~IsExplicit(FileDocument) => ~HasKey(FileDocument, "assignments")

OnlyModelIdStrings ==
    FileDocument[1] = "dict" /\ ~HasKey(FileDocument, "assignments") => IsShorthand(FileDocument)

\* the claim for the files in which no trajectory of a shorthand document
\* is named "assignments" and every shorthand value is a string
NormalizeAndRoundTripOtherNames ==
    NoTrajectoryNamedAssignments /\ OnlyModelIdStrings => C23_NormalizeAndRoundTrip

----------------------------------------------------------------------------
(* ros_parser.py: parse_ros_text, the displays and their IMAGERY_3DREF *)

\* Payloads. A TRdicomRdisplay payload is the number of floats it holds and
\* the matrix they spell (matrices are told apart by a number); a VOLUME
\* payload is a path or blank; an IMAGERY_3DREF payload is an integer
\* literal, another word, or blank.
MatrixPayload(count, matrix) == <<"floats", count, matrix>>

VolumePayload(path) == <<"path", path>>

IntPayload(value) == <<"int", value>>

WordPayload == <<"word", 0>>

BlankPayload == <<"blank", 0>>

NoToken == <<"absent", 0>>

\* _parse_display_matrix(block)
_parse_display_matrix(content) == IF content[2] < 16 THEN None ELSE Some(content[3])

\* _parse_volume_name(block)
_parse_volume_name(content) == IF content[1] = "blank" THEN None ELSE Some(content[2])

\* _parse_int_field(block)
_parse_int_field(content) == IF content[1] = "int" THEN Some(content[2]) ELSE None

\* An imagery block of the file: its reference payload (or no IMAGERY_3DREF
\* token at all), its matrix payload and its volume payload.
RefPayloads == {NoToken, BlankPayload, WordPayload, IntPayload(0), IntPayload(1)}

DisplayPayloads ==
    {<<16, VolumePayload("vol")>>, <<12, VolumePayload("vol")>>, <<16, BlankPayload>>}

ImageryBlocks ==
    {[ref |-> ref, floats |-> display[1], volume |-> display[2]] :
        ref \in RefPayloads, display \in DisplayPayloads}

Token(token, content) == [token |-> token, content |-> content]

\* the tokens of block k: IMAGERY_3DREF if present, TRdicomRdisplay, VOLUME
TokensOfBlock(block, k) ==
    (IF block.ref = NoToken THEN <<>> ELSE <<Token("IMAGERY_3DREF", block.ref)>>)
    \o <<Token("TRdicomRdisplay", MatrixPayload(block.floats, k)),
         Token("VOLUME", block.volume)>>

RECURSIVE TokensOfBlocks(_, _)
TokensOfBlocks(blocks, k) ==
    IF k > Len(blocks) THEN <<>>
    ELSE TokensOfBlock(blocks[k], k) \o TokensOfBlocks(blocks, k + 1)

ParserCall ==
    /\ p_blocks \in UNION {[1..n -> ImageryBlocks] : n \in 0..MaxImageryBlocks}
    /\ p_tokens = TokensOfBlocks(p_blocks, 1)
    /\ ppc = "call"
    /\ p_displays = <<>>
    /\ p_imagery_refs = <<>>

\* lines 110-126: the loop that collects the list displays
RECURSIVE DisplaysLoop(_, _, _)
DisplaysLoop(tokens, i, disps) ==
    IF i > Len(tokens) THEN disps
    ELSE IF tokens[i].token # "TRdicomRdisplay" THEN DisplaysLoop(tokens, i + 1, disps)
    ELSE IF i + 1 > Len(tokens) \/ tokens[i + 1].token # "VOLUME"
    THEN DisplaysLoop(tokens, i + 1, disps)
    ELSE LET matrix == _parse_display_matrix(tokens[i].content)
             volume_name == _parse_volume_name(tokens[i + 1].content)
         IN  IF matrix # None /\ volume_name # None
             THEN DisplaysLoop(tokens, i + 1,
                      Append(disps, [volume |-> volume_name[1],
                                        matrix |-> matrix[1],
                                        imagery_3dref |-> None]))
             ELSE DisplaysLoop(tokens, i + 1, disps)

\* lines 128-143: the loop that collects imagery_refs
RECURSIVE RefsLoop(_, _, _)
RefsLoop(tokens, i, imagery_refs) ==
    IF i > Len(tokens) THEN imagery_refs
    ELSE IF tokens[i].token = "IMAGERY_3DREF" /\ _parse_int_field(tokens[i].content) # None
    THEN RefsLoop(tokens, i + 1, Append(imagery_refs, _parse_int_field(tokens[i].content)[1]))
    ELSE RefsLoop(tokens, i + 1, imagery_refs)

\* lines 145-152: display i gets imagery_refs[i] if there is one
AttachRefs(disps, imagery_refs) ==
    [i \in DOMAIN disps |->
        IF i <= Len(imagery_refs)
        THEN [disps[i] EXCEPT !.imagery_3dref = Some(imagery_refs[i])]
        ELSE disps[i]]

CollectDisplays ==
    /\ ppc = "call"
    /\ p_displays' = DisplaysLoop(p_tokens, 1, <<>>)
    /\ ppc' = "displays"
    /\ UNCHANGED <<p_blocks, p_tokens, p_imagery_refs>>
    /\ UNCHANGED notParserVars

CollectRefs ==
    /\ ppc = "displays"
    /\ p_imagery_refs' = RefsLoop(p_tokens, 1, <<>>)
    /\ ppc' = "refs"
    /\ UNCHANGED <<p_blocks, p_tokens, p_displays>>
    /\ UNCHANGED notParserVars

AttachAndReturn ==
    /\ ppc = "refs"
    /\ p_displays' = AttachRefs(p_displays, p_imagery_refs)
    /\ ppc' = "done"
    /\ UNCHANGED <<p_blocks, p_tokens, p_imagery_refs>>
    /\ UNCHANGED notParserVars

NextParser == CollectDisplays \/ CollectRefs \/ AttachAndReturn

InitParser == ParserCall /\ IdleFrames /\ IdleMatch /\ IdleContacts /\ IdleQc /\ IdleFit /\ IdleRansac /\ IdleSession /\ IdleWorkflow /\ IdleLibrary /\ IdleAssignFile /\ IdleUi

SpecParser == InitParser /\ [][NextParser]_vars

(* Claims about the parser *)

\* the reference that belongs to block k: the integer of its own
\* IMAGERY_3DREF token, if it has one
RefOfBlock(k) ==
    IF p_blocks[k].ref[1] = "int" THEN Some(p_blocks[k].ref[2]) ELSE None

BlockEmitted(k) == p_blocks[k].floats >= 16 /\ p_blocks[k].volume[1] # "blank"

\* C29: in the returned list every display carries the reference of the
\* imagery block its matrix comes from: the integer of that block's
\* IMAGERY_3DREF token, and no reference when that token is missing or not
\* an integer, whatever the blocks before it look like.
C29_RefOfOwnBlock ==
    ppc = "done" =>
        \A i \in DOMAIN p_displays :
            p_displays[i].imagery_3dref = RefOfBlock(p_displays[i].matrix)

\* what the code does: the displays are the blocks with a well-formed
\* matrix and volume, in file order, and display i carries the i-th integer
\* reference of the file
RefByPosition ==
    ppc = "done" =>
        /\ Len(p_displays) = Cardinality({k \in DOMAIN p_blocks : BlockEmitted(k)})
        /\ \A i \in DOMAIN p_displays :
              /\ BlockEmitted(p_displays[i].matrix)
              /\ \A j \in DOMAIN p_displays : i < j => p_displays[i].matrix < p_displays[j].matrix
              /\ p_displays[i].imagery_3dref =
                    (IF i <= Len(p_imagery_refs) THEN Some(p_imagery_refs[i]) ELSE None)
        /\ Len(p_imagery_refs) = Cardinality({k \in DOMAIN p_blocks : RefOfBlock(k) # None})

\* Up to the last block that lacks an integer reference or is dropped,
\* nothing is shifted: the claim holds for files all of whose blocks have
\* an integer reference and a well-formed matrix and volume.
RefOfOwnBlockInCompleteFiles ==
    (\A k \in DOMAIN p_blocks : BlockEmitted(k) /\ RefOfBlock(k) # None) => C29_RefOfOwnBlock

----------------------------------------------------------------------------
(* RosaHelper.py: contact generation and the contact nodes of the scene *)

\* The loaded case: the table rows in order, and the catalog of the combos
TableNames == <<"A", "B">>

ComboModelIds == {"", "M2", "M3"}

ContactCountOf(model_id) == IF model_id = "M2" THEN 2 ELSE 3

PrefixTexts == {"ROSA_Contacts", "", "Alt"}

\* self.contactsNodeNameEdit.text.strip() or "ROSA_Contacts"
NodePrefix(text) == IF text = "" THEN "ROSA_Contacts" ELSE text

\* _collect_assignments: the rows with a model, in table order
RECURSIVE CollectRows(_, _)
CollectRows(table, row) ==
    IF row > Len(TableNames) THEN <<>>
    ELSE (IF table[TableNames[row]] = "" THEN <<>>
          ELSE <<[trajectory |-> TableNames[row], model_id |-> table[TableNames[row]]]>>)
         \o CollectRows(table, row + 1)

\* generate_contacts_for_assignment: one contact per offset of the model,
\* placed along the current line of the trajectory; the position is kept
\* as the pair (line position, model)
ContactsOfRow(row, line) ==
    [k \in 1..ContactCountOf(row.model_id) |->
        [trajectory |-> row.trajectory, index |-> k,
         model_id |-> row.model_id, line |-> line[row.trajectory]]]

RECURSIVE GenerateContactsUi(_, _, _)
GenerateContactsUi(rows, k, line) ==
    IF k > Len(rows) THEN <<>>
    ELSE ContactsOfRow(rows[k], line) \o GenerateContactsUi(rows, k + 1, line)

ContactsOfTrajectory(contacts, traj_name) ==
    SelectSeq(contacts, LAMBDA c : c.trajectory = traj_name)

\* create_contacts_fiducials_nodes_by_trajectory: one node per trajectory
\* that occurs in contacts, found by name or created, its points replaced
create_contacts_fiducials_nodes_by_trajectory(nodes, contacts, node_prefix) ==
    LET by_traj == {contacts[k].trajectory : k \in DOMAIN contacts}
        written == {<<node_prefix, traj_name>> : traj_name \in by_traj}
    IN  [node_name \in DOMAIN nodes \cup written |->
            IF node_name \in written
            THEN ContactsOfTrajectory(contacts, node_name[2])
            ELSE nodes[node_name]]

\* _run_contact_generation: [ok, lastAssignments, nodes, contacts]
_run_contact_generation(allow_last_assignments) ==
    LET collected == CollectRows(u_table, 1)
        use_last == collected = <<>> /\ allow_last_assignments /\ lastAssignments # <<>>
        assignments == IF use_last THEN lastAssignments ELSE collected
        contacts == GenerateContactsUi(assignments, 1, u_line)
    IN  IF collected = <<>> /\ ~use_last
        THEN [ok |-> FALSE, lastAssignments |-> lastAssignments, nodes |-> u_nodes,
              contacts |-> lastGeneratedContacts]
        ELSE [ok |-> TRUE,
              lastAssignments |-> assignments,
              nodes |-> create_contacts_fiducials_nodes_by_trajectory(
                            u_nodes, contacts, NodePrefix(u_prefix_text)),
              contacts |-> contacts]

RunAndStore(allow_last_assignments, log_context) ==
    LET r == _run_contact_generation(allow_last_assignments)
    IN  /\ lastAssignments' = r.lastAssignments
        /\ u_nodes' = r.nodes
        /\ lastGeneratedContacts' = r.contacts
        /\ u_op' = <<log_context, IF r.ok THEN "ok" ELSE "error">>

\* the state after onLoadClicked on a case with the trajectories A and B
UiLoaded ==
    /\ u_table = [name \in {"A", "B"} |-> ""]
    /\ u_prefix_text = "ROSA_Contacts"
    /\ u_line = [name \in {"A", "B"} |-> PlannedPosition]
    /\ u_nodes = <<>>
    /\ lastGeneratedContacts = <<>>
    /\ lastAssignments = <<>>
    /\ u_op = <<"load", "ok">>

\* the user picks a model in a combo of the table
EditAssignment ==
    /\ \E name \in {"A", "B"}, model_id \in ComboModelIds :
          /\ model_id # u_table[name]
          /\ u_table' = [u_table EXCEPT ![name] = model_id]
    /\ u_op' = <<"edit", "ok">>
    /\ UNCHANGED <<u_prefix_text, u_line, u_nodes, lastGeneratedContacts, lastAssignments>>
    /\ UNCHANGED notUiVars

\* the user types another name in "Output markups"
EditNodePrefix ==
    /\ \E text \in PrefixTexts : text # u_prefix_text /\ u_prefix_text' = text
    /\ u_op' = <<"edit", "ok">>
    /\ UNCHANGED <<u_table, u_line, u_nodes, lastGeneratedContacts, lastAssignments>>
    /\ UNCHANGED notUiVars

\* the user drags the line markup of trajectory A
MoveLine ==
    /\ \E position \in LinePositions :
          position # u_line["A"] /\ u_line' = [u_line EXCEPT !["A"] = position]
    /\ u_op' = <<"edit", "ok">>
    /\ UNCHANGED <<u_table, u_prefix_text, u_nodes, lastGeneratedContacts, lastAssignments>>
    /\ UNCHANGED notUiVars

\* onGenerateContactsClicked
GenerateContactsClick ==
    /\ RunAndStore(FALSE, "generate")
    /\ UNCHANGED <<u_table, u_prefix_text, u_line>>
    /\ UNCHANGED notUiVars

\* onUpdateContactsClicked
UpdateContactsClick ==
    /\ IF lastGeneratedContacts = <<>>
       THEN /\ u_op' = <<"update", "warning">>
            /\ UNCHANGED <<u_nodes, lastGeneratedContacts, lastAssignments>>
       ELSE RunAndStore(FALSE, "update")
    /\ UNCHANGED <<u_table, u_prefix_text, u_line>>
    /\ UNCHANGED notUiVars

\* the end of onApplyFitClicked: the fitted lines are moved and the
\* contacts regenerated, with the last assignments if the table has none
ApplyFitRegenerate ==
    /\ \E applied \in SUBSET {"A"} :
          /\ u_line' = [name \in DOMAIN u_line |->
                            IF name \in applied THEN FittedPosition ELSE u_line[name]]
          /\ LET collected == CollectRows(u_table, 1)
                 use_last == collected = <<>> /\ lastAssignments # <<>>
                 assignments == IF use_last THEN lastAssignments ELSE collected
                 contacts == GenerateContactsUi(assignments, 1, u_line')
             IN  IF assignments = <<>>
                 THEN /\ u_op' = <<"autofit", "error">>
                      /\ UNCHANGED <<u_nodes, lastGeneratedContacts, lastAssignments>>
                 ELSE /\ lastAssignments' = assignments
                      /\ u_nodes' = create_contacts_fiducials_nodes_by_trajectory(
                                        u_nodes, contacts, NodePrefix(u_prefix_text))
                      /\ lastGeneratedContacts' = contacts
                      /\ u_op' = <<"autofit", "ok">>
    /\ UNCHANGED <<u_table, u_prefix_text>>
    /\ UNCHANGED notUiVars

NextUi ==
    \/ EditAssignment
    \/ EditNodePrefix
    \/ MoveLine
    \/ GenerateContactsClick
    \/ UpdateContactsClick
    \/ ApplyFitRegenerate

InitUi == UiLoaded /\ IdleFrames /\ IdleMatch /\ IdleContacts /\ IdleQc /\ IdleFit /\ IdleRansac /\ IdleSession /\ IdleWorkflow /\ IdleLibrary /\ IdleAssignFile /\ IdleParser

SpecUi == InitUi /\ [][NextUi]_vars

(* Claims about the contact nodes *)

GenerationSucceeded == u_op \in {<<"generate", "ok">>, <<"update", "ok">>, <<"autofit", "ok">>}

NodesUnderPrefix == {node_name \in DOMAIN u_nodes : node_name[1] = NodePrefix(u_prefix_text)}

\* C30: right after a successful generation or update, the contact nodes
\* of the scene under the current prefix hold exactly the contacts of
\* lastGeneratedContacts: a trajectory with generated contacts has a node
\* with those contacts, and a trajectory without any has no node.
C30_NodesHoldLastGenerated ==
    GenerationSucceeded =>
        \A name \in {"A", "B"} :
            LET node_name == <<NodePrefix(u_prefix_text), name>>
                mine == ContactsOfTrajectory(lastGeneratedContacts, name)
            IN  IF mine = <<>>
                THEN node_name \notin NodesUnderPrefix
                ELSE node_name \in NodesUnderPrefix /\ u_nodes[node_name] = mine

\* what the code keeps: every contact of lastGeneratedContacts is in the
\* node of its trajectory, and that node holds nothing else
GeneratedContactsInTheirNodes ==
    GenerationSucceeded =>
        \A name \in {"A", "B"} :
            LET node_name == <<NodePrefix(u_prefix_text), name>>
                mine == ContactsOfTrajectory(lastGeneratedContacts, name)
            IN  mine # <<>> => node_name \in NodesUnderPrefix /\ u_nodes[node_name] = mine

\* a node under the current prefix that does not belong to
\* lastGeneratedContacts is the node of an earlier generation
StaleNodeReached ==
    /\ u_op = <<"generate", "ok">>
    /\ u_table = [name \in {"A", "B"} |-> IF name = "A" THEN "M2" ELSE ""]
    /\ <<"ROSA_Contacts", "B">> \in DOMAIN u_nodes
    /\ u_prefix_text = "ROSA_Contacts"
    /\ ContactsOfTrajectory(lastGeneratedContacts, "B") = <<>>

====
